---------------------------- MODULE Spec2Model ----------------------------
(***************************************************************************)
(* A model of the RDS/RBDS group decoder (src/src/rds_decoder.c,           *)
(* src/src/freq_table.c, src/src/freq_table_group.c).                      *)
(*                                                                         *)
(* The state is the host-owned RDS state record (struct rds_data), the     *)
(* decoder instance (struct rds_decoder), and a record of the last entry   *)
(* point that ran together with the host callbacks it invoked.             *)
(***************************************************************************)
EXTENDS Integers, Sequences, FiniteSets, TLC

VARIABLES rds,    \* struct rds_data, the record the decoder writes into
          dec,    \* struct rds_decoder: callbacks, user data, PS algorithm
          last,   \* the entry point that ran last, with its argument
          calls,  \* the host callbacks invoked by that entry point, in order
          steps   \* number of entry points run so far

vars == <<rds, dec, last, calls, steps>>

(***************************************************************************)
(* Program constants.                                                      *)
(***************************************************************************)
BLER_NONE == 0
BLER_1_2 == 1
BLER_3_5 == 2
BLER_6_PLUS == 3

BLERA_MAX == BLER_3_5
BLERB_MAX == BLER_1_2
BLERC_MAX == BLER_3_5
BLERD_MAX == BLER_3_5

NUM_TDC == 32
TDC_LEN == 32

PKTCNT_AF == 0
PKTCNT_CLOCK == 1
PKTCNT_EON == 2
PKTCNT_EWS == 3
PKTCNT_FBT == 4
PKTCNT_IH == 5
PKTCNT_PAGING == 6
PKTCNT_PIC == 7
PKTCNT_PI_CODE == 8
PKTCNT_PS == 9
PKTCNT_PTY == 10
PKTCNT_PTYN == 11
PKTCNT_RT == 12
PKTCNT_SLC == 13
PKTCNT_TDC == 14
PKTCNT_TMC == 15
PKTCNT_TA_CODE == 16
PKTCNT_TP_CODE == 17
PKTCNT_MS == 18
PKTCNT_NUM == 20

AF_BAND_UHF == 0
AF_BAND_LF_MF == 1

AF_ATTRIB_SAME_PROG == 0
AF_ATTRIB_REG_VARIANT == 1

AF_EM_UNKNOWN == 0
AF_EM_A == 1
AF_EM_B == 2

AF_MIN_FREQ_CODE == 1
AF_MAX_FREQ_CODE == 204
AF_FILLER_CODE == 205
AF_MIN_COUNT_CODE == 225
AF_MAX_COUNT_CODE == 249
AF_LF_MF_FOLLOWS == 250

AF_TABLE_ENTRIES == 25   \* ARRAY_SIZE(rds_af_table.entry)
AF_GROUP_TABLES == 20    \* ARRAY_SIZE(rds_af_table_group.table)
ODA_ENTRIES == 10        \* ARRAY_SIZE(rds_data.oda)
PS_LEN == 8              \* ARRAY_SIZE(ps.display)
RT_LEN == 64             \* ARRAY_SIZE(rt.display)
PTYN_LEN == 8            \* ARRAY_SIZE(ptyn.display)
EON_MAPS == 5            \* ARRAY_SIZE(eon.maps)
NUM_GROUPS == 16         \* ARRAY_SIZE(stats.groups)

RT_VALIDATE_LIMIT == 2
PS_VALIDATE_LIMIT == 2

RT_A == 0                \* enum rds_rt_text
RT_B == 1

\* The members of enum rds_values, the bits of valid_values.  The bitmask is
\* kept as the set of the bits that are set: SET_BITS is set union.
RDS_VALUES ==
  {"RDS_AF", "RDS_CLOCK", "RDS_EWS", "RDS_FBT", "RDS_MC", "RDS_PIC",
   "RDS_PI_CODE", "RDS_PS", "RDS_PTY", "RDS_PTYN", "RDS_RT", "RDS_SLC",
   "RDS_TDC", "RDS_TA_CODE", "RDS_TP_CODE", "RDS_MS", "RDS_EON"}

SET_BITS(value, bits) == value \cup bits

\* A zeroed char (the version of a group type that was never written).
NUL == "NUL"

(***************************************************************************)
(* Fixed-width integer helpers.                                            *)
(***************************************************************************)
Pow2(n) == 2 ^ n

U8(x) == x % 256
U16(x) == x % 65536

\* two's complement int8_t of an int
I8(x) == LET m == x % 256 IN IF m >= 128 THEN m - 256 ELSE m

\* (v >> lo) & (2^n - 1)
Bits(v, lo, n) == (v \div Pow2(lo)) % Pow2(n)

\* (v & (1 << k)) != 0
Bit(v, k) == Bits(v, k, 1) = 1

HiByte(v) == (v \div 256) % 256
LoByte(v) == v % 256

(***************************************************************************)
(* The zeroed record: memset(rds, 0, sizeof(struct rds_data)).             *)
(***************************************************************************)
ZeroBytes(n) == [i \in 0..(n - 1) |-> 0]

ZeroFreq == [band |-> 0, attrib |-> 0, freq |-> 0]

ZeroBlock == [val |-> 0, errors |-> 0]

ZeroPic == [day |-> 0, hour |-> 0, minute |-> 0]

ZeroAfDecodeTable ==
  [table |-> [tuned_freq |-> ZeroFreq,
              count |-> 0,
              entry |-> [i \in 0..(AF_TABLE_ENTRIES - 1) |-> ZeroFreq]],
   enc_method |-> 0,
   pvt |-> [band |-> 0, prev_enc_method |-> 0, expected_cnt |-> 0]]

ZeroRt ==
  [display |-> ZeroBytes(RT_LEN),
   pvt |-> [hi_prob |-> ZeroBytes(RT_LEN),
            lo_prob |-> ZeroBytes(RT_LEN),
            hi_prob_cnt |-> ZeroBytes(RT_LEN)]]

ZeroRds ==
  [pi_code |-> 0,
   pic |-> ZeroPic,
   pty |-> 0,
   tp_code |-> FALSE,
   ta_code |-> FALSE,
   music |-> FALSE,
   ps |-> [display |-> ZeroBytes(PS_LEN),
           pvt |-> [hi_prob |-> ZeroBytes(PS_LEN),
                    lo_prob |-> ZeroBytes(PS_LEN),
                    hi_prob_cnt |-> ZeroBytes(PS_LEN)]],
   rt |-> [a |-> ZeroRt, b |-> ZeroRt, decode_rt |-> 0],
   clock |-> [day_high |-> FALSE, day_low |-> 0, hour |-> 0, minute |-> 0,
              utc_offset |-> 0],
   slc |-> [la |-> FALSE, variant_code |-> 0, data |-> 0],
   ptyn |-> [display |-> ZeroBytes(PTYN_LEN), last_ab |-> FALSE],
   af |-> [pvt |-> [current_table_idx |-> 0],
           count |-> 0,
           table |-> [i \in 0..(AF_GROUP_TABLES - 1) |-> ZeroAfDecodeTable]],
   eon |-> [on |-> [ps |-> ZeroBytes(PS_LEN),
                    pty |-> 0,
                    tp_code |-> FALSE,
                    ta_code |-> FALSE,
                    af |-> ZeroAfDecodeTable,
                    pi_code |-> 0,
                    pic |-> ZeroPic],
            maps |-> [i \in 0..(EON_MAPS - 1) |->
                        [tn_tuned_freq |-> ZeroFreq, on_freq |-> ZeroFreq]]],
   oda_cnt |-> 0,
   oda |-> [i \in 0..(ODA_ENTRIES - 1) |->
              [id |-> 0, gt |-> [code |-> 0, version |-> NUL], pkt_count |-> 0]],
   tdc |-> [data |-> [ch \in 0..(NUM_TDC - 1) |-> ZeroBytes(TDC_LEN)],
            curr_channel |-> 0],
   ews |-> [b |-> ZeroBlock, c |-> ZeroBlock, d |-> ZeroBlock],
   stats |-> [counts |-> [i \in 0..(PKTCNT_NUM - 1) |-> 0],
              groups |-> [i \in 0..(NUM_GROUPS - 1) |-> [a |-> 0, b |-> 0]],
              data_cnt |-> 0,
              blckb_errors |-> 0],
   valid_values |-> {}]

\* stats.counts[i]++ (RDS_DEV is defined in rds_decoder.h)
IncCount(r, i) == [r EXCEPT !.stats.counts[i] = @ + 1]


(***************************************************************************)
(* freq_table.c: the frequency codec and the decoder of one AF table.      *)
(***************************************************************************)
freq_code_is_freq(freq_code) ==
  AF_MIN_FREQ_CODE <= freq_code /\ freq_code <= AF_MAX_FREQ_CODE

freq_eq(a, b) == a.band = b.band /\ a.freq = b.freq

freq_lt(a, b) ==
  IF a.band = b.band THEN a.freq < b.freq
  ELSE IF a.band = AF_BAND_LF_MF /\ b.band = AF_BAND_UHF THEN TRUE
  ELSE FALSE

is_freq_code_count(freq_code) ==
  AF_MIN_COUNT_CODE <= freq_code /\ freq_code <= AF_MAX_COUNT_CODE

freq_code_to_count(freq_code) == U8(1 + freq_code - AF_MIN_COUNT_CODE)

af_code_to_freq(freq_code, band) ==
  IF band = AF_BAND_UHF THEN U16(876 + freq_code - 1)
  ELSE IF freq_code < 16 THEN U16(153 + 9 * (freq_code - 1))
  ELSE U16(531 + 9 * (freq_code - 16))

\* index of freq among the first count entries, -1 if absent
find_af_freq_idx(table, freq) ==
  LET hits == {i \in 0..(table.count - 1) : freq_eq(table.entry[i], freq)}
  IN IF hits = {} THEN -1
     ELSE CHOOSE i \in hits : \A j \in hits : i <= j

freq_in_af_table(table, freq) == find_af_freq_idx(table, freq) # -1

\* table is a struct rds_af_decode_table
dec_af_expected_count(table) ==
  IF table.pvt.expected_cnt = 0 THEN table
  ELSE [table EXCEPT !.pvt.expected_cnt = @ - 1]

\* insert_alt_freq without the test for a full array
insert_alt_freq_no_cap(table, freq) ==
  IF freq_in_af_table(table, freq) THEN table
  ELSE [table EXCEPT !.entry[table.count] = freq, !.count = @ + 1]

\* insert_alt_freq without the test for a frequency already stored
insert_alt_freq_no_lookup(table, freq) ==
  IF table.count >= AF_TABLE_ENTRIES THEN table
  ELSE [table EXCEPT !.entry[table.count] = freq, !.count = @ + 1]

\* table is a struct rds_af_table
insert_alt_freq(table, freq) ==
  IF table.count >= AF_TABLE_ENTRIES THEN table
  ELSE IF freq_in_af_table(table, freq) THEN table
  ELSE [table EXCEPT !.entry[table.count] = freq, !.count = @ + 1]

add_alt_freq(table, freq) ==
  LET t1 == dec_af_expected_count(table)
  IN [t1 EXCEPT !.table = insert_alt_freq(t1.table, freq)]

\* the return value of handle_freq_code: the code is not a frequency
handle_freq_code_ret(freq_code) ==
  IF freq_code = AF_FILLER_CODE THEN TRUE
  ELSE IF freq_code = AF_LF_MF_FOLLOWS THEN TRUE
  ELSE ~freq_code_is_freq(freq_code)

\* handle_freq_code that consumes the LF/MF marker without changing the band
handle_freq_code_keep_band(table, freq_code) ==
  IF freq_code = AF_FILLER_CODE THEN dec_af_expected_count(table)
  ELSE IF freq_code = AF_LF_MF_FOLLOWS THEN dec_af_expected_count(table)
  ELSE IF ~freq_code_is_freq(freq_code) THEN dec_af_expected_count(table)
  ELSE table

\* the effect of handle_freq_code on the table
handle_freq_code(table, freq_code) ==
  IF freq_code = AF_FILLER_CODE THEN dec_af_expected_count(table)
  ELSE IF freq_code = AF_LF_MF_FOLLOWS
    THEN dec_af_expected_count([table EXCEPT !.pvt.band = AF_BAND_LF_MF])
  ELSE IF ~freq_code_is_freq(freq_code) THEN dec_af_expected_count(table)
  ELSE table

\* decode_freq_table_start_block that learns the method of every list anew
decode_freq_table_start_block_relearn(table, num_freqs_in_table, second_byte) ==
  LET t2 == [table EXCEPT !.pvt.expected_cnt = num_freqs_in_table,
                          !.pvt.band = AF_BAND_UHF,
                          !.enc_method = AF_EM_UNKNOWN]
      t3 == handle_freq_code(t2, second_byte)
      freq == [band |-> t3.pvt.band,
               attrib |-> AF_ATTRIB_SAME_PROG,
               freq |-> af_code_to_freq(second_byte, t3.pvt.band)]
  IN IF handle_freq_code_ret(second_byte) THEN t3
     ELSE add_alt_freq(t3, freq)

decode_freq_table_start_block(table, num_freqs_in_table, second_byte) ==
  LET t1 == [table EXCEPT !.pvt.expected_cnt = num_freqs_in_table,
                          !.pvt.band = AF_BAND_UHF]
      t2 == IF t1.pvt.prev_enc_method # AF_EM_UNKNOWN
              THEN [t1 EXCEPT !.enc_method = t1.pvt.prev_enc_method]
              ELSE t1
      t3 == handle_freq_code(t2, second_byte)
      freq == [band |-> t3.pvt.band,
               attrib |-> AF_ATTRIB_SAME_PROG,
               freq |-> af_code_to_freq(second_byte, t3.pvt.band)]
  IN IF handle_freq_code_ret(second_byte) THEN t3
     ELSE add_alt_freq(t3, freq)

\* the settling of the method that looks for the tuned frequency in the
\* first byte only
nth_block_settle_method_first_only(table, handled_first, handled_second, first_freq, second_freq) ==
  IF handled_first \/ handled_second
    THEN [table EXCEPT !.enc_method = AF_EM_A]
  ELSE IF freq_eq(first_freq, table.table.tuned_freq)
    THEN [table EXCEPT !.enc_method = AF_EM_B]
  ELSE LET t1 == [table EXCEPT !.enc_method = AF_EM_A]
       IN IF t1.table.tuned_freq.freq # 0
            THEN [add_alt_freq(t1, t1.table.tuned_freq)
                    EXCEPT !.table.tuned_freq = ZeroFreq]
            ELSE t1

\* the block of decode_freq_table_nth_block that settles an UNKNOWN method
\* (not reached when both bytes were handled)
nth_block_settle_method(table, handled_first, handled_second, first_freq, second_freq) ==
  IF handled_first \/ handled_second
    THEN [table EXCEPT !.enc_method = AF_EM_A]
  ELSE IF freq_eq(first_freq, table.table.tuned_freq)
          \/ freq_eq(second_freq, table.table.tuned_freq)
    THEN [table EXCEPT !.enc_method = AF_EM_B]
  ELSE LET t1 == [table EXCEPT !.enc_method = AF_EM_A]
       IN IF t1.table.tuned_freq.freq # 0
            THEN [add_alt_freq(t1, t1.table.tuned_freq)
                    EXCEPT !.table.tuned_freq = ZeroFreq]
            ELSE t1

\* the tail of decode_freq_table_nth_block, once the method is settled
nth_block_emit(table, handled_first, handled_second, first_freq, second_freq) ==
  LET t1 == [table EXCEPT !.pvt.prev_enc_method = table.enc_method]
  IN IF t1.enc_method = AF_EM_A
       THEN LET t2 == IF ~handled_first THEN add_alt_freq(t1, first_freq)
                      ELSE t1
            IN IF ~handled_second THEN add_alt_freq(t2, second_freq) ELSE t2
     ELSE IF handled_first \/ handled_second THEN t1
     ELSE IF freq_eq(t1.table.tuned_freq, first_freq)
       THEN add_alt_freq(t1,
              IF freq_lt(first_freq, second_freq)
                THEN [second_freq EXCEPT !.attrib = AF_ATTRIB_REG_VARIANT]
                ELSE second_freq)
     ELSE IF freq_eq(t1.table.tuned_freq, second_freq)
       THEN add_alt_freq(t1,
              IF freq_lt(first_freq, second_freq)
                THEN [first_freq EXCEPT !.attrib = AF_ATTRIB_REG_VARIANT]
                ELSE first_freq)
     ELSE t1

\* decode_freq_table_nth_block that does not test for a lost start block
decode_freq_table_nth_block_any_time(table, first_byte, second_byte) ==
  LET handled_first == handle_freq_code_ret(first_byte)
      t1 == handle_freq_code(table, first_byte)
      first_freq == [band |-> t1.pvt.band,
                     attrib |-> AF_ATTRIB_SAME_PROG,
                     freq |-> af_code_to_freq(first_byte, t1.pvt.band)]
      handled_second == handle_freq_code_ret(second_byte)
      t2 == handle_freq_code(t1, second_byte)
      second_freq == [band |-> t2.pvt.band,
                      attrib |-> AF_ATTRIB_SAME_PROG,
                      freq |-> af_code_to_freq(second_byte, t2.pvt.band)]
  IN IF t2.enc_method = AF_EM_UNKNOWN /\ handled_first /\ handled_second
       THEN t2
     ELSE
       LET t3 == IF t2.enc_method = AF_EM_UNKNOWN
                   THEN nth_block_settle_method(t2, handled_first,
                          handled_second, first_freq, second_freq)
                   ELSE t2
       IN nth_block_emit(t3, handled_first, handled_second,
                         first_freq, second_freq)

decode_freq_table_nth_block(table, first_byte, second_byte) ==
  IF table.pvt.expected_cnt = 0 THEN table
  ELSE
    LET handled_first == handle_freq_code_ret(first_byte)
        t1 == handle_freq_code(table, first_byte)
        first_freq == [band |-> t1.pvt.band,
                       attrib |-> AF_ATTRIB_SAME_PROG,
                       freq |-> af_code_to_freq(first_byte, t1.pvt.band)]
        handled_second == handle_freq_code_ret(second_byte)
        t2 == handle_freq_code(t1, second_byte)
        second_freq == [band |-> t2.pvt.band,
                        attrib |-> AF_ATTRIB_SAME_PROG,
                        freq |-> af_code_to_freq(second_byte, t2.pvt.band)]
    IN IF t2.enc_method = AF_EM_UNKNOWN /\ handled_first /\ handled_second
         THEN t2
       ELSE
         LET t3 == IF t2.enc_method = AF_EM_UNKNOWN
                     THEN nth_block_settle_method(t2, handled_first,
                            handled_second, first_freq, second_freq)
                     ELSE t2
         IN nth_block_emit(t3, handled_first, handled_second,
                           first_freq, second_freq)

(***************************************************************************)
(* freq_table_group.c: the group of AF tables of the tuned station.        *)
(***************************************************************************)
\* find_af_table_idx whose loop starts at the second table
find_af_table_idx_skip_first(group, tuned_freq) ==
  LET hits == {i \in 1..(group.count - 1) :
                 freq_eq(group.table[i].table.tuned_freq, tuned_freq)}
  IN IF hits = {} THEN -1
     ELSE CHOOSE i \in hits : \A j \in hits : i <= j

\* index of the first table in use whose tuned_freq is tuned_freq, else -1
find_af_table_idx(group, tuned_freq) ==
  LET hits == {i \in 0..(group.count - 1) :
                 freq_eq(group.table[i].table.tuned_freq, tuned_freq)}
  IN IF hits = {} THEN -1
     ELSE CHOOSE i \in hits : \A j \in hits : i <= j

\* decode_af_start_block that gives the last table to the new list when all
\* tables are in use
decode_af_start_block_recycle(group, num_freqs_in_table, second_byte) ==
  LET reuse_a == group.count = 1 /\ group.table[0].enc_method = AF_EM_A
      idx1 == IF reuse_a \/ num_freqs_in_table = 1 THEN 0 ELSE -1
      encoding_method == IF reuse_a \/ num_freqs_in_table = 1
                           THEN AF_EM_A ELSE AF_EM_UNKNOWN
      freq == [band |-> AF_BAND_UHF,
               attrib |-> AF_ATTRIB_SAME_PROG,
               freq |-> af_code_to_freq(second_byte, AF_BAND_UHF)]
      found == find_af_table_idx(group, freq)
      full == group.count = AF_GROUP_TABLES
      idx == IF full THEN AF_GROUP_TABLES - 1 ELSE group.count
      t1 == [group.table[idx] EXCEPT !.enc_method = encoding_method]
      t2 == IF t1.enc_method = AF_EM_UNKNOWN
              THEN [t1 EXCEPT !.table.tuned_freq = freq]
              ELSE t1
  IN IF idx1 # -1
       THEN [group EXCEPT
               !.pvt.current_table_idx = idx1,
               !.table[idx1] = decode_freq_table_start_block(
                                 @, num_freqs_in_table, second_byte)]
     ELSE IF found # -1
       THEN [group EXCEPT
               !.pvt.current_table_idx = found,
               !.table[found] = decode_freq_table_start_block(
                                  @, num_freqs_in_table, second_byte)]
     ELSE [group EXCEPT
             !.pvt.current_table_idx = idx,
             !.count = IF full THEN @ ELSE @ + 1,
             !.table[idx] = decode_freq_table_start_block(
                              t2, num_freqs_in_table, second_byte)]

decode_af_start_block(group, num_freqs_in_table, second_byte) ==
  LET reuse_a == group.count = 1 /\ group.table[0].enc_method = AF_EM_A
      idx1 == IF reuse_a \/ num_freqs_in_table = 1 THEN 0 ELSE -1
      encoding_method == IF reuse_a \/ num_freqs_in_table = 1
                           THEN AF_EM_A ELSE AF_EM_UNKNOWN
      freq == [band |-> AF_BAND_UHF,
               attrib |-> AF_ATTRIB_SAME_PROG,
               freq |-> af_code_to_freq(second_byte, AF_BAND_UHF)]
      found == find_af_table_idx(group, freq)
  IN IF idx1 # -1
       THEN [group EXCEPT
               !.pvt.current_table_idx = idx1,
               !.table[idx1] = decode_freq_table_start_block(
                                 @, num_freqs_in_table, second_byte)]
     ELSE IF found # -1
       THEN [group EXCEPT
               !.pvt.current_table_idx = found,
               !.table[found] = decode_freq_table_start_block(
                                  @, num_freqs_in_table, second_byte)]
     ELSE IF group.count = AF_GROUP_TABLES
       THEN [group EXCEPT !.pvt.current_table_idx = -1]
     ELSE
       LET idx == group.count
           t1 == [group.table[idx] EXCEPT !.enc_method = encoding_method]
           t2 == IF t1.enc_method = AF_EM_UNKNOWN
                   THEN [t1 EXCEPT !.table.tuned_freq = freq]
                   ELSE t1
       IN [group EXCEPT
             !.pvt.current_table_idx = idx,
             !.count = @ + 1,
             !.table[idx] = decode_freq_table_start_block(
                              t2, num_freqs_in_table, second_byte)]

decode_af_nth_block(group, first_byte, second_byte) ==
  IF group.pvt.current_table_idx < 0 THEN group
  ELSE [group EXCEPT
          !.table[group.pvt.current_table_idx] =
              decode_freq_table_nth_block(@, first_byte, second_byte)]

decode_freq_group_block(group, block) ==
  LET first_byte == HiByte(block)
      second_byte == LoByte(block)
  IN IF is_freq_code_count(first_byte)
       THEN decode_af_start_block(group, freq_code_to_count(first_byte),
                                  second_byte)
       ELSE decode_af_nth_block(group, first_byte, second_byte)


(***************************************************************************)
(* rds_decoder.c: group types and block acceptance.                        *)
(***************************************************************************)
GroupTypesEqual(gta, gtb) == gta.code = gtb.code /\ gta.version = gtb.version

\* scans all ARRAY_SIZE(rds->oda) entries, not only the first oda_cnt
IsGroupTypeUsedByODA(r, gt) ==
  \E i \in 0..(ODA_ENTRIES - 1) : GroupTypesEqual(r.oda[i].gt, gt)

IsValidODAAppId(app_id) == app_id # 0

decode_pty(r, block) ==
  LET r1 == [r EXCEPT !.tp_code = Bit(block.val, 10),
                      !.pty = Bits(block.val, 5, 5),
                      !.valid_values = SET_BITS(@, {"RDS_TP_CODE"})]
      r2 == IF r1.tp_code THEN IncCount(r1, PKTCNT_TP_CODE) ELSE r1
      r3 == [r2 EXCEPT !.valid_values = SET_BITS(@, {"RDS_PTY"})]
  IN IncCount(r3, PKTCNT_PTY)

decode_ta(r, block) ==
  IncCount([r EXCEPT !.ta_code = Bit(block.val, 4),
                     !.valid_values = SET_BITS(@, {"RDS_TA_CODE"})],
           PKTCNT_TA_CODE)

decode_ms(r, block) ==
  IncCount([r EXCEPT !.music = Bit(block.val, 3),
                     !.valid_values = SET_BITS(@, {"RDS_MS"})],
           PKTCNT_MS)

(***************************************************************************)
(* Radiotext.  rt is one struct rds_rt (rds->rt.a or rds->rt.b).           *)
(***************************************************************************)
\* the block that guards character i of a count-character payload
RtCharAccepted(blocks, count, i) ==
  IF i < 2 /\ count > 2 THEN blocks.c.errors <= BLERC_MAX
  ELSE blocks.d.errors <= BLERD_MAX

\* the first loop of update_rt_simple from character i on
RECURSIVE rt_simple_chars(_, _, _, _, _, _)
rt_simple_chars(display, blocks, count, addr, chars, i) ==
  IF i >= count THEN display
  ELSE IF RtCharAccepted(blocks, count, i)
    THEN LET d1 == [display EXCEPT ![addr + i] = chars[i]]
         IN IF chars[i] = 13
              THEN [j \in 0..(RT_LEN - 1) |->
                      IF j >= U8(addr + i + 1) THEN 0 ELSE d1[j]]
              ELSE rt_simple_chars(d1, blocks, count, addr, chars, i + 1)
  ELSE rt_simple_chars(display, blocks, count, addr, chars, i + 1)

\* update_rt_simple that treats 0x0D as any other character
update_rt_simple_plain_cr(rt, blocks, count, addr, chars) ==
  LET d1 == [j \in 0..(RT_LEN - 1) |->
               IF j >= addr /\ j < addr + count
                    /\ RtCharAccepted(blocks, count, j - addr)
                 THEN chars[j - addr] ELSE rt.display[j]]
  IN [rt EXCEPT !.display =
        [j \in 0..(RT_LEN - 1) |-> IF j < addr /\ d1[j] = 0 THEN 32 ELSE d1[j]]]

update_rt_simple(rt, blocks, count, addr, chars) ==
  LET d1 == rt_simple_chars(rt.display, blocks, count, addr, chars, 0)
  IN [rt EXCEPT !.display =
        [j \in 0..(RT_LEN - 1) |-> IF j < addr /\ d1[j] = 0 THEN 32 ELSE d1[j]]]

\* bump_rt_validation_count without the three memsets: only its two loops
bump_rt_validation_count_no_wipe(rt) ==
  [rt EXCEPT
     !.pvt.hi_prob = [j \in 0..(RT_LEN - 1) |->
                        IF rt.pvt.hi_prob[j] = 0 THEN 32
                        ELSE rt.pvt.hi_prob[j]],
     !.pvt.hi_prob_cnt = [j \in 0..(RT_LEN - 1) |->
                            U8(rt.pvt.hi_prob_cnt[j]
                               + (IF rt.pvt.hi_prob[j] = 0 THEN 2 ELSE 1))]]

\* both loops only touch what the memsets that follow them zero
bump_rt_validation_count(rt) ==
  [rt EXCEPT !.pvt.hi_prob_cnt = ZeroBytes(RT_LEN),
             !.pvt.hi_prob = ZeroBytes(RT_LEN),
             !.pvt.lo_prob = ZeroBytes(RT_LEN)]

\* one iteration of the loop of update_rt_advance on an accepted byte
rt_advance_byte(pvt, k, byte) ==
  IF pvt.hi_prob[k] = byte
    THEN IF pvt.hi_prob_cnt[k] < RT_VALIDATE_LIMIT
           THEN [pvt EXCEPT !.hi_prob_cnt[k] = @ + 1]
           ELSE [pvt EXCEPT !.hi_prob_cnt[k] = RT_VALIDATE_LIMIT,
                            !.lo_prob[k] = byte]
  ELSE IF pvt.lo_prob[k] = byte
    THEN [pvt EXCEPT
            !.hi_prob_cnt[k] = IF @ >= RT_VALIDATE_LIMIT
                                 THEN RT_VALIDATE_LIMIT + 1
                                 ELSE RT_VALIDATE_LIMIT,
            !.lo_prob[k] = pvt.hi_prob[k],
            !.hi_prob[k] = byte]
  ELSE IF pvt.hi_prob_cnt[k] = 0
    THEN [pvt EXCEPT !.hi_prob[k] = byte, !.hi_prob_cnt[k] = 1]
  ELSE [pvt EXCEPT !.lo_prob[k] = byte]

\* whether that iteration sets text_changing
rt_advance_changing(pvt, k, byte) ==
  /\ pvt.hi_prob[k] # byte
  /\ pvt.lo_prob[k] = byte
  /\ pvt.hi_prob_cnt[k] >= RT_VALIDATE_LIMIT

\* the loop of update_rt_advance from character i on: <<pvt, text_changing>>
RECURSIVE rt_advance_chars(_, _, _, _, _, _, _)
rt_advance_chars(pvt, changing, blocks, count, addr, byte, i) ==
  IF i >= count THEN <<pvt, changing>>
  ELSE IF RtCharAccepted(blocks, count, i)
    THEN LET b == IF byte[i] = 0 THEN 32 ELSE byte[i]
         IN rt_advance_chars(rt_advance_byte(pvt, addr + i, b),
                             changing \/ rt_advance_changing(pvt, addr + i, b),
                             blocks, count, addr, byte, i + 1)
  ELSE rt_advance_chars(pvt, changing, blocks, count, addr, byte, i + 1)

\* update_rt_advance that does not lower the counts when the text changes
update_rt_advance_no_knock_down(rt, blocks, count, addr, byte) ==
  LET res == rt_advance_chars(rt.pvt, FALSE, blocks, count, addr, byte, 0)
  IN [rt EXCEPT !.pvt = res[1]]

update_rt_advance(rt, blocks, count, addr, byte) ==
  LET res == rt_advance_chars(rt.pvt, FALSE, blocks, count, addr, byte, 0)
      pvt == res[1]
  IN IF ~res[2] THEN [rt EXCEPT !.pvt = pvt]
     ELSE [rt EXCEPT !.pvt =
             [pvt EXCEPT !.hi_prob_cnt =
                [j \in 0..(RT_LEN - 1) |->
                   IF pvt.hi_prob_cnt[j] > 1 THEN pvt.hi_prob_cnt[j] - 1
                   ELSE pvt.hi_prob_cnt[j]]]]

(***************************************************************************)
(* Program Service name.                                                   *)
(***************************************************************************)
\* update_ps_advanced that shows the text once every byte was seen once
update_ps_advanced_seen_once(r, char_idx, byte) ==
  IF char_idx >= PS_LEN THEN r
  ELSE
    LET p == r.ps.pvt
        p1 == IF p.hi_prob[char_idx] = byte
                THEN IF p.hi_prob_cnt[char_idx] < PS_VALIDATE_LIMIT
                       THEN [p EXCEPT !.hi_prob_cnt[char_idx] = @ + 1]
                       ELSE [p EXCEPT !.lo_prob[char_idx] = byte]
              ELSE IF p.hi_prob_cnt[char_idx] = 0
                THEN [p EXCEPT !.hi_prob[char_idx] = byte,
                               !.hi_prob_cnt[char_idx] = 1]
              ELSE [p EXCEPT !.lo_prob[char_idx] = byte]
        complete == \A i \in 0..(PS_LEN - 1) : p1.hi_prob_cnt[i] >= 1
        r1 == [r EXCEPT !.ps.pvt = p1]
    IN IF complete
         THEN [r1 EXCEPT !.valid_values = SET_BITS(@, {"RDS_PS"}),
                         !.ps.display = p1.hi_prob]
         ELSE r1

\* update_ps_advanced that copies the text to the display on every byte
update_ps_advanced_always_shown(r, char_idx, byte) ==
  IF char_idx >= PS_LEN THEN r
  ELSE
    LET p == r.ps.pvt
        p1 == IF p.hi_prob[char_idx] = byte
                THEN IF p.hi_prob_cnt[char_idx] < PS_VALIDATE_LIMIT
                       THEN [p EXCEPT !.hi_prob_cnt[char_idx] = @ + 1]
                       ELSE [p EXCEPT !.lo_prob[char_idx] = byte]
              ELSE IF p.hi_prob_cnt[char_idx] = 0
                THEN [p EXCEPT !.hi_prob[char_idx] = byte,
                               !.hi_prob_cnt[char_idx] = 1]
              ELSE [p EXCEPT !.lo_prob[char_idx] = byte]
    IN [r EXCEPT !.ps.pvt = p1,
                 !.valid_values = SET_BITS(@, {"RDS_PS"}),
                 !.ps.display = p1.hi_prob]

update_ps_advanced(r, char_idx, byte) ==
  IF char_idx >= PS_LEN THEN r
  ELSE
    LET p == r.ps.pvt
        in_transition == /\ p.hi_prob[char_idx] # byte
                         /\ p.lo_prob[char_idx] = byte
                         /\ p.hi_prob_cnt[char_idx] >= PS_VALIDATE_LIMIT
        p1 == IF p.hi_prob[char_idx] = byte
                THEN IF p.hi_prob_cnt[char_idx] < PS_VALIDATE_LIMIT
                       THEN [p EXCEPT !.hi_prob_cnt[char_idx] = @ + 1]
                       ELSE [p EXCEPT !.hi_prob_cnt[char_idx] = PS_VALIDATE_LIMIT,
                                      !.lo_prob[char_idx] = byte]
              ELSE IF p.lo_prob[char_idx] = byte
                THEN [p EXCEPT
                        !.hi_prob_cnt[char_idx] =
                            IF @ >= PS_VALIDATE_LIMIT THEN PS_VALIDATE_LIMIT + 1
                            ELSE PS_VALIDATE_LIMIT,
                        !.lo_prob[char_idx] = p.hi_prob[char_idx],
                        !.hi_prob[char_idx] = byte]
              ELSE IF p.hi_prob_cnt[char_idx] = 0
                THEN [p EXCEPT !.hi_prob[char_idx] = byte,
                               !.hi_prob_cnt[char_idx] = 1]
              ELSE [p EXCEPT !.lo_prob[char_idx] = byte]
        p2 == IF in_transition
                THEN [p1 EXCEPT !.hi_prob_cnt =
                        [i \in 0..(PS_LEN - 1) |->
                           IF p1.hi_prob_cnt[i] > 1 THEN p1.hi_prob_cnt[i] - 1
                           ELSE p1.hi_prob_cnt[i]]]
                ELSE p1
        complete == \A i \in 0..(PS_LEN - 1) :
                       p2.hi_prob_cnt[i] >= PS_VALIDATE_LIMIT
        r1 == [r EXCEPT !.ps.pvt = p2]
    IN IF complete
         THEN [r1 EXCEPT !.valid_values = SET_BITS(@, {"RDS_PS"}),
                         !.ps.display = p2.hi_prob]
         ELSE r1

\* update_ps_simple that leaves RDS_PS for a later, complete text
update_ps_simple_not_valid(r, char_idx, current_ps_byte) ==
  IF char_idx >= PS_LEN THEN r
  ELSE [r EXCEPT !.ps.display[char_idx] = current_ps_byte]

update_ps_simple(r, char_idx, current_ps_byte) ==
  IF char_idx >= PS_LEN THEN r
  ELSE [r EXCEPT !.ps.display[char_idx] = current_ps_byte,
                 !.valid_values = SET_BITS(@, {"RDS_PS"})]

(***************************************************************************)
(* Group 0: basic tuning, AF and PS.                                       *)
(***************************************************************************)
decode_alt_freq(r, blocks) ==
  IF blocks.c.errors # BLER_NONE THEN r
  ELSE LET r1 == IncCount([r EXCEPT !.valid_values = SET_BITS(@, {"RDS_AF"})],
                          PKTCNT_AF)
       IN [r1 EXCEPT !.af = decode_freq_group_block(@, blocks.c.val)]

\* st is the pair of the RDS record and the callbacks invoked so far
decode_group_type_0(decoder, st, gt, blocks) ==
  LET r0 == IF gt.version = "A" THEN decode_alt_freq(st.rds, blocks)
            ELSE st.rds
      r1 == decode_ms(decode_ta(r0, blocks.b), blocks.b)
      pair_idx == Bits(blocks.b.val, 0, 2) * 2
      r2 == IF decoder.advanced_ps_decoding
              THEN update_ps_advanced(
                     update_ps_advanced(r1, pair_idx + 0, HiByte(blocks.d.val)),
                     pair_idx + 1, LoByte(blocks.d.val))
              ELSE update_ps_simple(
                     update_ps_simple(r1, pair_idx + 0, HiByte(blocks.d.val)),
                     pair_idx + 1, LoByte(blocks.d.val))
  IN IF blocks.d.errors > BLERD_MAX THEN [st EXCEPT !.rds = r0]
     ELSE [st EXCEPT !.rds = IncCount(r2, PKTCNT_PS)]


(***************************************************************************)
(* Group 1: slow labelling codes and programme item number.                *)
(***************************************************************************)
\* slc.data is the 16 bits of the union; the two bytes of the paging member
\* are laid out low byte first
decode_slow_labelling_codes(r, blocks) ==
  IF blocks.c.errors > BLERC_MAX THEN r
  ELSE
    LET c == blocks.c.val
        vc == Bits(c, 12, 3)
        r1 == IncCount([r EXCEPT !.valid_values = SET_BITS(@, {"RDS_SLC"})],
                       PKTCNT_SLC)
        r2 == [r1 EXCEPT !.slc.la = Bit(c, 15), !.slc.variant_code = vc]
    IN IF vc = 0
         THEN [r2 EXCEPT !.slc.data = Bits(c, 8, 4) + 256 * Bits(c, 0, 8)]
       ELSE IF vc \in {4, 5} THEN [r2 EXCEPT !.slc.data = 0]
       ELSE [r2 EXCEPT !.slc.data = Bits(c, 0, 12)]

decode_program_item_number_code(raw_value) ==
  LET day == Bits(raw_value, 11, 5)
  IN IF day # 0
       THEN [day |-> day, hour |-> Bits(raw_value, 6, 5),
             minute |-> Bits(raw_value, 0, 6)]
       ELSE [day |-> 0, hour |-> 0, minute |-> 0]

decode_group_type_1(decoder, st, gt, blocks) ==
  LET r0 == IF gt.version = "A"
              THEN decode_slow_labelling_codes(st.rds, blocks)
              ELSE st.rds
  IN IF blocks.d.errors <= BLERD_MAX
       THEN [st EXCEPT !.rds =
               IncCount([r0 EXCEPT
                           !.pic = decode_program_item_number_code(blocks.d.val),
                           !.valid_values = SET_BITS(@, {"RDS_PIC"})],
                        PKTCNT_PIC)]
       ELSE [st EXCEPT !.rds = r0]

(***************************************************************************)
(* Group 2: Radiotext.                                                     *)
(***************************************************************************)
\* decode_group_type_2 whose 2B branch does not store 0x0D at display[32]
decode_group_type_2_no_tombstone(decoder, st, gt, blocks) ==
  LET r == st.rds
      decode_rt == IF Bit(blocks.b.val, 4) THEN RT_A ELSE RT_B
      rt == IF decode_rt = RT_A THEN r.rt.a ELSE r.rt.b
      flip == r.rt.decode_rt # decode_rt
      Finish(newrt) ==
        LET r1 == IF decode_rt = RT_A THEN [r EXCEPT !.rt.a = newrt]
                  ELSE [r EXCEPT !.rt.b = newrt]
        IN IncCount([r1 EXCEPT !.rt.decode_rt = decode_rt,
                               !.valid_values = SET_BITS(@, {"RDS_RT"})],
                    PKTCNT_RT)
  IN IF gt.version = "A"
       THEN IF blocks.c.errors > BLERC_MAX \/ blocks.d.errors > BLERD_MAX
              THEN st
            ELSE
              LET rtchars == [i \in 0..3 |->
                                CASE i = 0 -> HiByte(blocks.c.val)
                                  [] i = 1 -> LoByte(blocks.c.val)
                                  [] i = 2 -> HiByte(blocks.d.val)
                                  [] i = 3 -> LoByte(blocks.d.val)]
                  addr == U8(Bits(blocks.b.val, 0, 4) * 4)
                  t1 == update_rt_simple(rt, blocks, 4, addr, rtchars)
                  t2 == IF flip THEN bump_rt_validation_count(t1) ELSE t1
              IN [st EXCEPT !.rds =
                    Finish(update_rt_advance(t2, blocks, 4, addr, rtchars))]
     ELSE IF blocks.d.errors > BLERD_MAX THEN st
     ELSE
       LET rtchars == [i \in 0..3 |->
                         CASE i = 0 -> HiByte(blocks.d.val)
                           [] i = 1 -> LoByte(blocks.d.val)
                           [] i = 2 -> 0
                           [] i = 3 -> 0]
           addr == U8(Bits(blocks.b.val, 0, 4) * 2)
           t0 == [rt EXCEPT !.pvt.hi_prob[32] = 13,
                            !.pvt.lo_prob[32] = 13,
                            !.pvt.hi_prob_cnt[32] = RT_VALIDATE_LIMIT]
           t1 == update_rt_simple(t0, blocks, 2, addr, rtchars)
           t2 == IF flip THEN bump_rt_validation_count(t1) ELSE t1
       IN [st EXCEPT !.rds =
             Finish(update_rt_advance(t2, blocks, 2, addr, rtchars))]

decode_group_type_2(decoder, st, gt, blocks) ==
  LET r == st.rds
      decode_rt == IF Bit(blocks.b.val, 4) THEN RT_A ELSE RT_B
      rt == IF decode_rt = RT_A THEN r.rt.a ELSE r.rt.b
      flip == r.rt.decode_rt # decode_rt
      Finish(newrt) ==
        LET r1 == IF decode_rt = RT_A THEN [r EXCEPT !.rt.a = newrt]
                  ELSE [r EXCEPT !.rt.b = newrt]
        IN IncCount([r1 EXCEPT !.rt.decode_rt = decode_rt,
                               !.valid_values = SET_BITS(@, {"RDS_RT"})],
                    PKTCNT_RT)
  IN IF gt.version = "A"
       THEN IF blocks.c.errors > BLERC_MAX \/ blocks.d.errors > BLERD_MAX
              THEN st
            ELSE
              LET rtchars == [i \in 0..3 |->
                                CASE i = 0 -> HiByte(blocks.c.val)
                                  [] i = 1 -> LoByte(blocks.c.val)
                                  [] i = 2 -> HiByte(blocks.d.val)
                                  [] i = 3 -> LoByte(blocks.d.val)]
                  addr == U8(Bits(blocks.b.val, 0, 4) * 4)
                  t1 == update_rt_simple(rt, blocks, 4, addr, rtchars)
                  t2 == IF flip THEN bump_rt_validation_count(t1) ELSE t1
              IN [st EXCEPT !.rds =
                    Finish(update_rt_advance(t2, blocks, 4, addr, rtchars))]
     ELSE IF blocks.d.errors > BLERD_MAX THEN st
     ELSE
       LET rtchars == [i \in 0..3 |->
                         CASE i = 0 -> HiByte(blocks.d.val)
                           [] i = 1 -> LoByte(blocks.d.val)
                           [] i = 2 -> 0
                           [] i = 3 -> 0]
           addr == U8(Bits(blocks.b.val, 0, 4) * 2)
           t0 == [rt EXCEPT !.display[32] = 13,
                            !.pvt.hi_prob[32] = 13,
                            !.pvt.lo_prob[32] = 13,
                            !.pvt.hi_prob_cnt[32] = RT_VALIDATE_LIMIT]
           t1 == update_rt_simple(t0, blocks, 2, addr, rtchars)
           t2 == IF flip THEN bump_rt_validation_count(t1) ELSE t1
       IN [st EXCEPT !.rds =
             Finish(update_rt_advance(t2, blocks, 2, addr, rtchars))]

(***************************************************************************)
(* Open data applications.                                                 *)
(***************************************************************************)
\* the record of one invocation of the host's decode_cb
DecodeCbCall(decoder, r, idx, blocks, gt) ==
  [fn |-> "decode_cb", target |-> decoder.oda.decode_cb,
   app_id |-> r.oda[idx].id, rds |-> r, blocks |-> blocks, gt |-> gt,
   cb_data |-> decoder.oda.cb_data]

\* index of the first active entry bound to gt, oda_cnt if there is none
oda_find_gt(r, gt) ==
  LET hits == {i \in 0..(r.oda_cnt - 1) : GroupTypesEqual(r.oda[i].gt, gt)}
  IN IF hits = {} THEN r.oda_cnt
     ELSE CHOOSE i \in hits : \A j \in hits : i <= j

\* decode_oda counting a packet only when a decode callback is bound
decode_oda_count_in_callback(decoder, st, gt, blocks) ==
  LET idx == oda_find_gt(st.rds, gt)
      r1 == [st.rds EXCEPT !.oda[idx].pkt_count = U16(@ + 1)]
  IN IF idx = st.rds.oda_cnt THEN st
     ELSE IF decoder.oda.decode_cb # 0
       THEN [rds |-> r1,
             calls |-> Append(st.calls,
                              DecodeCbCall(decoder, r1, idx, blocks, gt))]
     ELSE st

\* decode_oda whose search keeps the last entry bound to gt, not the first
decode_oda_last_match(decoder, st, gt, blocks) ==
  LET r == st.rds
      hits == {i \in 0..(r.oda_cnt - 1) : GroupTypesEqual(r.oda[i].gt, gt)}
      idx == IF hits = {} THEN r.oda_cnt
             ELSE CHOOSE i \in hits : \A j \in hits : i >= j
      r1 == [r EXCEPT !.oda[idx].pkt_count = U16(@ + 1)]
  IN IF idx = r.oda_cnt THEN st
     ELSE IF decoder.oda.decode_cb # 0
       THEN [rds |-> r1,
             calls |-> Append(st.calls,
                              DecodeCbCall(decoder, r1, idx, blocks, gt))]
     ELSE [st EXCEPT !.rds = r1]

decode_oda(decoder, st, gt, blocks) ==
  LET idx == oda_find_gt(st.rds, gt)
      r1 == [st.rds EXCEPT !.oda[idx].pkt_count = U16(@ + 1)]
  IN IF idx = st.rds.oda_cnt THEN st
     ELSE IF decoder.oda.decode_cb # 0
       THEN [rds |-> r1,
             calls |-> Append(st.calls,
                              DecodeCbCall(decoder, r1, idx, blocks, gt))]
     ELSE [st EXCEPT !.rds = r1]

\* index of the first active entry whose id is app_id, oda_cnt if none
oda_find_id(r, app_id) ==
  LET hits == {i \in 0..(r.oda_cnt - 1) : r.oda[i].id = app_id}
  IN IF hits = {} THEN r.oda_cnt
     ELSE CHOOSE i \in hits : \A j \in hits : i <= j

\* announced_gt without the shift of the masked code
announced_gt_unshifted(blocks) ==
  [code |-> Bits(blocks.b.val, 0, 4),
   version |-> IF Bit(blocks.b.val, 0) THEN "B" ELSE "A"]

\* the group type a 3A announces: bits 4..1 and bit 0 of block B
announced_gt(blocks) ==
  [code |-> Bits(blocks.b.val, 1, 4),
   version |-> IF Bit(blocks.b.val, 0) THEN "B" ELSE "A"]

\* decode_group_type_3 without the test of IsValidODAAppId
decode_group_type_3_any_app_id(decoder, st, gt, blocks) ==
  IF gt.version = "A"
    THEN IF blocks.d.errors = BLER_NONE
           THEN LET app_id == blocks.d.val
                    r == st.rds
                    idx == oda_find_id(r, app_id)
                IN IF idx < r.oda_cnt
                     THEN [st EXCEPT !.rds.oda[idx].gt = announced_gt(blocks)]
                   ELSE IF idx < ODA_ENTRIES
                     THEN [st EXCEPT
                             !.rds.oda[idx].id = app_id,
                             !.rds.oda[idx].gt = announced_gt(blocks),
                             !.rds.oda_cnt = U8(@ + 1)]
                   ELSE st
           ELSE st
    ELSE decode_oda(decoder, st, gt, blocks)

\* decode_group_type_3 that starts the packet count of a re-announced
\* application again
decode_group_type_3_reset_count(decoder, st, gt, blocks) ==
  IF gt.version = "A"
    THEN IF blocks.d.errors = BLER_NONE
           THEN LET app_id == blocks.d.val
                    r == st.rds
                    idx == oda_find_id(r, app_id)
                IN IF ~IsValidODAAppId(app_id) THEN st
                   ELSE IF idx < r.oda_cnt
                     THEN [st EXCEPT !.rds.oda[idx].gt = announced_gt(blocks),
                                     !.rds.oda[idx].pkt_count = 0]
                   ELSE IF idx < ODA_ENTRIES
                     THEN [st EXCEPT
                             !.rds.oda[idx].id = app_id,
                             !.rds.oda[idx].gt = announced_gt(blocks),
                             !.rds.oda_cnt = U8(@ + 1)]
                   ELSE st
           ELSE st
    ELSE decode_oda(decoder, st, gt, blocks)

decode_group_type_3(decoder, st, gt, blocks) ==
  IF gt.version = "A"
    THEN IF blocks.d.errors = BLER_NONE
           THEN LET app_id == blocks.d.val
                    r == st.rds
                    idx == oda_find_id(r, app_id)
                IN IF ~IsValidODAAppId(app_id) THEN st
                   ELSE IF idx < r.oda_cnt
                     THEN [st EXCEPT !.rds.oda[idx].gt = announced_gt(blocks)]
                   ELSE IF idx < ODA_ENTRIES
                     THEN [st EXCEPT
                             !.rds.oda[idx].id = app_id,
                             !.rds.oda[idx].gt = announced_gt(blocks),
                             !.rds.oda_cnt = U8(@ + 1)]
                   ELSE st
           ELSE st
    ELSE decode_oda(decoder, st, gt, blocks)

(***************************************************************************)
(* Group 4: clock.                                                         *)
(***************************************************************************)
\* update_clock without the test of the sum of the three error classes
update_clock_no_sum(r, blocks) ==
  IF blocks.b.errors > BLERB_MAX THEN r
  ELSE IF blocks.c.errors > BLERC_MAX THEN r
  ELSE IF blocks.d.errors > BLERD_MAX THEN r
  ELSE
    LET b == blocks.b.val
        c == blocks.c.val
        d == blocks.d.val
        off == Bits(d, 0, 5)
        r1 == IncCount([r EXCEPT !.valid_values = SET_BITS(@, {"RDS_CLOCK"})],
                       PKTCNT_CLOCK)
    IN [r1 EXCEPT
          !.clock.day_high = Bits(b, 1, 1) # 0,
          !.clock.day_low = U16(Bits(b, 0, 1) * 32768 + Bits(c, 1, 15)),
          !.clock.hour = U8(Bits(c, 0, 1) * 16 + Bits(d, 12, 4)),
          !.clock.minute = Bits(d, 6, 6),
          !.clock.utc_offset = IF Bit(d, 5) THEN I8(0 - off) ELSE off]

update_clock(r, blocks) ==
  IF blocks.b.errors > BLERB_MAX THEN r
  ELSE IF blocks.c.errors > BLERC_MAX THEN r
  ELSE IF blocks.d.errors > BLERD_MAX THEN r
  ELSE IF blocks.b.errors + blocks.c.errors + blocks.d.errors > BLERB_MAX
    THEN r
  ELSE
    LET b == blocks.b.val
        c == blocks.c.val
        d == blocks.d.val
        off == Bits(d, 0, 5)
        r1 == IncCount([r EXCEPT !.valid_values = SET_BITS(@, {"RDS_CLOCK"})],
                       PKTCNT_CLOCK)
    IN [r1 EXCEPT
          !.clock.day_high = Bits(b, 1, 1) # 0,
          !.clock.day_low = U16(Bits(b, 0, 1) * 32768 + Bits(c, 1, 15)),
          !.clock.hour = U8(Bits(c, 0, 1) * 16 + Bits(d, 12, 4)),
          !.clock.minute = Bits(d, 6, 6),
          !.clock.utc_offset = IF Bit(d, 5) THEN I8(0 - off) ELSE off]

decode_group_type_4(decoder, st, gt, blocks) ==
  IF gt.version = "A" THEN [st EXCEPT !.rds = update_clock(@, blocks)]
  ELSE decode_oda(decoder, st, gt, blocks)

(***************************************************************************)
(* Group 5: transparent data channels.                                     *)
(***************************************************************************)
\* decode_tdc_block without the test of the channel number
decode_tdc_block_any_channel(r, block) ==
  LET channel == r.tdc.curr_channel
      r1 == IncCount([r EXCEPT !.valid_values = SET_BITS(@, {"RDS_TDC"})],
                     PKTCNT_TDC)
  IN IF channel >= NUM_TDC THEN r1
     ELSE
       LET old == r1.tdc.data[channel]
       IN [r1 EXCEPT !.tdc.data[channel] =
             [i \in 0..(TDC_LEN - 1) |->
                IF i < TDC_LEN - 2 THEN old[i + 2]
                ELSE IF i = TDC_LEN - 2 THEN HiByte(block.val)
                ELSE LoByte(block.val)]]

decode_tdc_block(r, block) ==
  LET channel == r.tdc.curr_channel
  IN IF channel >= NUM_TDC THEN r
     ELSE
       LET r1 == IncCount([r EXCEPT !.valid_values = SET_BITS(@, {"RDS_TDC"})],
                          PKTCNT_TDC)
           old == r1.tdc.data[channel]
       IN [r1 EXCEPT !.tdc.data[channel] =
             [i \in 0..(TDC_LEN - 1) |->
                IF i < TDC_LEN - 2 THEN old[i + 2]
                ELSE IF i = TDC_LEN - 2 THEN HiByte(block.val)
                ELSE LoByte(block.val)]]

\* (uint8_t)(b & 0x11111): bits 0, 4, 8 and 12 of b, cut to eight bits
tdc_channel_of(b) ==
  U8(Bits(b, 0, 1) + 16 * Bits(b, 4, 1) + 256 * Bits(b, 8, 1)
     + 4096 * Bits(b, 12, 1))

\* decode_group_type_5 without the test of IsGroupTypeUsedByODA
decode_group_type_5_tdc_only(decoder, st, gt, blocks) ==
  IF gt.version = "A"
    THEN LET r1 == [st.rds EXCEPT
                      !.tdc.curr_channel = tdc_channel_of(blocks.b.val)]
         IN [st EXCEPT !.rds =
               decode_tdc_block(decode_tdc_block(r1, blocks.c), blocks.d)]
  ELSE [st EXCEPT !.rds = decode_tdc_block(@, blocks.d)]

decode_group_type_5(decoder, st, gt, blocks) ==
  IF IsGroupTypeUsedByODA(st.rds, gt) THEN decode_oda(decoder, st, gt, blocks)
  ELSE IF gt.version = "A"
    THEN LET r1 == [st.rds EXCEPT
                      !.tdc.curr_channel = tdc_channel_of(blocks.b.val)]
         IN [st EXCEPT !.rds =
               decode_tdc_block(decode_tdc_block(r1, blocks.c), blocks.d)]
  ELSE [st EXCEPT !.rds = decode_tdc_block(@, blocks.d)]

(***************************************************************************)
(* Groups 6 to 9.                                                          *)
(***************************************************************************)
decode_in_house_data(r) == IncCount(r, PKTCNT_IH)

decode_group_type_6(decoder, st, gt, blocks) ==
  IF IsGroupTypeUsedByODA(st.rds, gt) THEN decode_oda(decoder, st, gt, blocks)
  ELSE [st EXCEPT !.rds = decode_in_house_data(@)]

decode_radio_paging(r) == IncCount(r, PKTCNT_PAGING)

decode_group_type_7(decoder, st, gt, blocks) ==
  IF gt.version = "A"
    THEN IF IsGroupTypeUsedByODA(st.rds, gt)
           THEN decode_oda(decoder, st, gt, blocks)
           ELSE [st EXCEPT !.rds = decode_radio_paging(@)]
    ELSE decode_oda(decoder, st, gt, blocks)

decode_tmc(r) == IncCount(r, PKTCNT_TMC)

decode_group_type_8(decoder, st, gt, blocks) ==
  IF IsGroupTypeUsedByODA(st.rds, gt) THEN decode_oda(decoder, st, gt, blocks)
  ELSE IF gt.version = "A" THEN [st EXCEPT !.rds = decode_tmc(@)]
  ELSE st

decode_ews(r, blocks) ==
  LET r1 == IncCount(r, PKTCNT_EWS)
  IN [r1 EXCEPT !.valid_values = SET_BITS(@, {"RDS_EWS"}),
                !.ews.b = [val |-> Bits(blocks.b.val, 0, 5),
                           errors |-> blocks.b.errors],
                !.ews.c = blocks.c,
                !.ews.d = blocks.d]

decode_group_type_9(decoder, st, gt, blocks) ==
  IF IsGroupTypeUsedByODA(st.rds, gt) THEN decode_oda(decoder, st, gt, blocks)
  ELSE IF gt.version = "A" THEN [st EXCEPT !.rds = decode_ews(@, blocks)]
  ELSE st


(***************************************************************************)
(* Groups 10 to 13.                                                        *)
(***************************************************************************)
update_ptyn(r, char_idx, ch) ==
  IF char_idx >= PTYN_LEN THEN r
  ELSE [r EXCEPT !.ptyn.display[char_idx] = ch]

\* decode_ptyn that zeroes the display after the characters are stored
decode_ptyn_clear_late(r, blocks) ==
  LET r1 == IncCount([r EXCEPT !.valid_values = SET_BITS(@, {"RDS_PTYN"})],
                     PKTCNT_PTYN)
      ab_val == Bit(blocks.b.val, 4)
      base == IF Bit(blocks.b.val, 0) THEN 4 ELSE 0
      r2 == IF blocks.c.errors <= BLERC_MAX
              THEN update_ptyn(update_ptyn(r1, base + 0, HiByte(blocks.c.val)),
                               base + 1, LoByte(blocks.c.val))
              ELSE r1
      r3 == IF blocks.d.errors <= BLERD_MAX
              THEN update_ptyn(update_ptyn(r2, base + 2, HiByte(blocks.d.val)),
                               base + 3, LoByte(blocks.d.val))
              ELSE r2
  IN IF r3.ptyn.last_ab # ab_val
       THEN [r3 EXCEPT !.ptyn.display = ZeroBytes(PTYN_LEN),
                       !.ptyn.last_ab = ab_val]
       ELSE r3

\* decode_ptyn that latches the flag and keeps the old name
decode_ptyn_no_clear(r, blocks) ==
  LET r1 == IncCount([r EXCEPT !.valid_values = SET_BITS(@, {"RDS_PTYN"})],
                     PKTCNT_PTYN)
      r2 == [r1 EXCEPT !.ptyn.last_ab = Bit(blocks.b.val, 4)]
      base == IF Bit(blocks.b.val, 0) THEN 4 ELSE 0
      r3 == IF blocks.c.errors <= BLERC_MAX
              THEN update_ptyn(update_ptyn(r2, base + 0, HiByte(blocks.c.val)),
                               base + 1, LoByte(blocks.c.val))
              ELSE r2
  IN IF blocks.d.errors <= BLERD_MAX
       THEN update_ptyn(update_ptyn(r3, base + 2, HiByte(blocks.d.val)),
                        base + 3, LoByte(blocks.d.val))
       ELSE r3

decode_ptyn(r, blocks) ==
  LET r1 == IncCount([r EXCEPT !.valid_values = SET_BITS(@, {"RDS_PTYN"})],
                     PKTCNT_PTYN)
      ab_val == Bit(blocks.b.val, 4)
      r2 == IF r1.ptyn.last_ab # ab_val
              THEN [r1 EXCEPT !.ptyn.display = ZeroBytes(PTYN_LEN),
                              !.ptyn.last_ab = ab_val]
              ELSE r1
      base == IF Bit(blocks.b.val, 0) THEN 4 ELSE 0
      r3 == IF blocks.c.errors <= BLERC_MAX
              THEN update_ptyn(update_ptyn(r2, base + 0, HiByte(blocks.c.val)),
                               base + 1, LoByte(blocks.c.val))
              ELSE r2
  IN IF blocks.d.errors <= BLERD_MAX
       THEN update_ptyn(update_ptyn(r3, base + 2, HiByte(blocks.d.val)),
                        base + 3, LoByte(blocks.d.val))
       ELSE r3

decode_group_type_10(decoder, st, gt, blocks) ==
  IF gt.version = "A" THEN [st EXCEPT !.rds = decode_ptyn(@, blocks)]
  ELSE decode_oda(decoder, st, gt, blocks)

decode_group_type_11(decoder, st, gt, blocks) ==
  decode_oda(decoder, st, gt, blocks)

decode_group_type_12(decoder, st, gt, blocks) ==
  decode_oda(decoder, st, gt, blocks)

decode_group_type_13(decoder, st, gt, blocks) ==
  decode_oda(decoder, st, gt, blocks)

(***************************************************************************)
(* Group 14: enhanced other networks.                                      *)
(***************************************************************************)
decode_eon_block_a(r, blocks) ==
  LET vc == Bits(blocks.b.val, 0, 4)
      c == blocks.c.val
      first_byte == HiByte(c)
  IN IF vc \in 0..3
       THEN [r EXCEPT !.eon.on.ps[2 * vc] = HiByte(c),
                      !.eon.on.ps[2 * vc + 1] = LoByte(c)]
     ELSE IF vc = 4
       THEN IF is_freq_code_count(first_byte)
              THEN [r EXCEPT !.eon.on.af =
                      decode_freq_table_start_block(
                        [@ EXCEPT !.pvt.band = AF_BAND_UHF],
                        freq_code_to_count(first_byte), LoByte(c))]
              ELSE [r EXCEPT !.eon.on.af =
                      decode_freq_table_nth_block(@, first_byte, LoByte(c))]
     ELSE IF vc = 13
       THEN [r EXCEPT !.eon.on.pty = IF c > 11 THEN 1 ELSE 0,
                      !.eon.on.ta_code = Bit(c, 0)]
     ELSE r

decode_group_type_14(decoder, st, gt, blocks) ==
  LET r1 == IncCount(st.rds, PKTCNT_EON)
      r2 == [r1 EXCEPT !.valid_values = SET_BITS(@, {"RDS_EON"})]
  IN IF gt.version = "A"
       THEN [st EXCEPT !.rds = decode_eon_block_a(r2, blocks)]
     ELSE
       LET r3 == IF blocks.d.errors <= BLERD_MAX
                   THEN [r2 EXCEPT !.eon.on.pi_code = blocks.d.val]
                   ELSE r2
       IN [st EXCEPT !.rds =
             [r3 EXCEPT !.eon.on.tp_code = Bit(blocks.b.val, 3),
                        !.eon.on.ta_code = Bit(blocks.b.val, 2)]]

(***************************************************************************)
(* Group 15.                                                               *)
(***************************************************************************)
decode_fast_basic_tuning(r, blocks) == IncCount(r, PKTCNT_FBT)

decode_group_type_15(decoder, st, gt, blocks) ==
  LET r1 == IF gt.version = "A" THEN st.rds
            ELSE decode_fast_basic_tuning(st.rds, blocks)
  IN [st EXCEPT !.rds = decode_ta(r1, blocks.b)]

(***************************************************************************)
(* The exported entry points.                                              *)
(***************************************************************************)
\* gt of a group: the top nibble and bit 11 of block B
group_type_of(blocks) ==
  [code |-> Bits(blocks.b.val, 12, 4),
   version |-> IF Bit(blocks.b.val, 11) THEN "B" ELSE "A"]

\* the switch of rds_decoder_decode
dispatch_group(decoder, st, gt, blocks) ==
  CASE gt.code = 0 -> decode_group_type_0(decoder, st, gt, blocks)
    [] gt.code = 1 -> decode_group_type_1(decoder, st, gt, blocks)
    [] gt.code = 2 -> decode_group_type_2(decoder, st, gt, blocks)
    [] gt.code = 3 -> decode_group_type_3(decoder, st, gt, blocks)
    [] gt.code = 4 -> decode_group_type_4(decoder, st, gt, blocks)
    [] gt.code = 5 -> decode_group_type_5(decoder, st, gt, blocks)
    [] gt.code = 6 -> decode_group_type_6(decoder, st, gt, blocks)
    [] gt.code = 7 -> decode_group_type_7(decoder, st, gt, blocks)
    [] gt.code = 8 -> decode_group_type_8(decoder, st, gt, blocks)
    [] gt.code = 9 -> decode_group_type_9(decoder, st, gt, blocks)
    [] gt.code = 10 -> decode_group_type_10(decoder, st, gt, blocks)
    [] gt.code = 11 -> decode_group_type_11(decoder, st, gt, blocks)
    [] gt.code = 12 -> decode_group_type_12(decoder, st, gt, blocks)
    [] gt.code = 13 -> decode_group_type_13(decoder, st, gt, blocks)
    [] gt.code = 14 -> decode_group_type_14(decoder, st, gt, blocks)
    [] gt.code = 15 -> decode_group_type_15(decoder, st, gt, blocks)

\* the latch of pi_code from block A at the head of rds_decoder_decode
latch_pi_block_a(r, blocks) ==
  IF blocks.a.errors <= BLERA_MAX
    THEN IncCount([r EXCEPT !.pi_code = blocks.a.val,
                            !.valid_values = SET_BITS(@, {"RDS_PI_CODE"})],
                  PKTCNT_PI_CODE)
    ELSE r

\* latch_pi_block_c with <= where the code has <
latch_pi_block_c_not_strict(r, gt, blocks) ==
  IF gt.version = "B" /\ blocks.c.errors <= BLERC_MAX
     /\ blocks.c.errors <= blocks.b.errors
    THEN IncCount([r EXCEPT !.pi_code = blocks.c.val,
                            !.valid_values = SET_BITS(@, {"RDS_PI_CODE"})],
                  PKTCNT_PI_CODE)
    ELSE r

\* the latch of pi_code from block C of a 'B' version group
latch_pi_block_c(r, gt, blocks) ==
  IF gt.version = "B" /\ blocks.c.errors <= BLERC_MAX
     /\ blocks.c.errors < blocks.b.errors
    THEN IncCount([r EXCEPT !.pi_code = blocks.c.val,
                            !.valid_values = SET_BITS(@, {"RDS_PI_CODE"})],
                  PKTCNT_PI_CODE)
    ELSE r

\* rds_decoder_decode with the block B test moved below decode_pty
rds_decoder_decode_late_reject(decoder, r, blocks) ==
  LET r1 == [r EXCEPT !.stats.data_cnt = U16(@ + 1)]
      r2 == latch_pi_block_a(r1, blocks)
      gt == group_type_of(blocks)
      r3 == latch_pi_block_c(r2, gt, blocks)
      r4 == IF gt.version = "A"
              THEN [r3 EXCEPT !.stats.groups[gt.code].a = U16(@ + 1)]
              ELSE [r3 EXCEPT !.stats.groups[gt.code].b = U16(@ + 1)]
      r5 == decode_pty(r4, blocks.b)
  IN IF blocks.b.errors > BLERB_MAX
       THEN [rds |-> [r5 EXCEPT !.stats.blckb_errors = U16(@ + 1)],
             calls |-> <<>>]
       ELSE dispatch_group(decoder, [rds |-> r5, calls |-> <<>>], gt, blocks)

\* the result of rds_decoder_decode: the record and the callbacks invoked
rds_decoder_decode(decoder, r, blocks) ==
  LET r1 == [r EXCEPT !.stats.data_cnt = U16(@ + 1)]
      r2 == latch_pi_block_a(r1, blocks)
      gt == group_type_of(blocks)
      r3 == latch_pi_block_c(r2, gt, blocks)
      r4 == IF gt.version = "A"
              THEN [r3 EXCEPT !.stats.groups[gt.code].a = U16(@ + 1)]
              ELSE [r3 EXCEPT !.stats.groups[gt.code].b = U16(@ + 1)]
      r5 == decode_pty(r4, blocks.b)
  IN IF blocks.b.errors > BLERB_MAX
       THEN [rds |-> [r2 EXCEPT !.stats.blckb_errors = U16(@ + 1)],
             calls |-> <<>>]
       ELSE dispatch_group(decoder, [rds |-> r5, calls |-> <<>>], gt, blocks)

\* the record of one invocation of the host's clear_cb
ClearCbCall(decoder, r) ==
  [fn |-> "clear_cb", target |-> decoder.oda.clear_cb, rds |-> r,
   cb_data |-> decoder.oda.cb_data]

\* rds_decoder_reset with memset(rds, 0, sizeof(rds)): the size of a pointer,
\* which covers pi_code, pic, pty, tp_code and ta_code only
rds_decoder_reset_sizeof_pointer(decoder, r) ==
  LET r1 == [r EXCEPT !.pi_code = 0, !.pic = ZeroPic, !.pty = 0,
                      !.tp_code = FALSE, !.ta_code = FALSE,
                      !.af.pvt.current_table_idx = -1]
  IN [rds |-> r1,
      calls |-> IF decoder.oda.clear_cb # 0
                  THEN <<ClearCbCall(decoder, r1)>>
                  ELSE <<>>]

\* rds_decoder_reset with clear_cb called before the record is zeroed
rds_decoder_reset_callback_first(decoder, r) ==
  [rds |-> [ZeroRds EXCEPT !.af.pvt.current_table_idx = -1],
   calls |-> IF decoder.oda.clear_cb # 0
               THEN <<ClearCbCall(decoder, r)>>
               ELSE <<>>]

\* rds_decoder_reset that zeroes the record but for the ODA registry
rds_decoder_reset_keep_oda(decoder, r) ==
  LET r1 == [ZeroRds EXCEPT !.af.pvt.current_table_idx = -1,
                            !.oda = r.oda, !.oda_cnt = r.oda_cnt]
  IN [rds |-> r1,
      calls |-> IF decoder.oda.clear_cb # 0
                  THEN <<ClearCbCall(decoder, r1)>>
                  ELSE <<>>]

\* the result of rds_decoder_reset: the record and the callbacks invoked
rds_decoder_reset(decoder, r) ==
  LET r1 == [ZeroRds EXCEPT !.af.pvt.current_table_idx = -1]
  IN [rds |-> r1,
      calls |-> IF decoder.oda.clear_cb # 0
                  THEN <<ClearCbCall(decoder, r1)>>
                  ELSE <<>>]

\* the decoder after calloc and the two assignments of rds_decoder_create
rds_decoder_create(config) ==
  [oda |-> [decode_cb |-> 0, clear_cb |-> 0, cb_data |-> 0],
   advanced_ps_decoding |-> config.advanced_ps_decoding]

rds_decoder_set_oda_callbacks(decoder, decode_cb, clear_cb, cb_data) ==
  [decoder EXCEPT !.oda = [decode_cb |-> decode_cb, clear_cb |-> clear_cb,
                           cb_data |-> cb_data]]


(***************************************************************************)
(* Groups as the tuner delivers them, and runs of the decoder.             *)
(***************************************************************************)
Block(val, errors) == [val |-> val, errors |-> errors]

Blocks(a, b, c, d) == [a |-> a, b |-> b, c |-> c, d |-> d]

\* block B: [15..12] group code | [11] version | [10] TP | [9..5] PTY | [4..0]
BVal(code, version, tp, pty, low5) ==
  code * 4096 + version * 2048 + tp * 1024 + pty * 32 + low5

\* an error-free group
Clean(a, b, c, d) ==
  Blocks(Block(a, BLER_NONE), Block(b, BLER_NONE), Block(c, BLER_NONE),
         Block(d, BLER_NONE))

\* the same group with the four error classes e = <<ea, eb, ec, ed>>
WithErrors(g, e) ==
  [a |-> [g.a EXCEPT !.errors = e[1]], b |-> [g.b EXCEPT !.errors = e[2]],
   c |-> [g.c EXCEPT !.errors = e[3]], d |-> [g.d EXCEPT !.errors = e[4]]]

NoBlocks == Clean(0, 0, 0, 0)

\* the record after decoding the groups seq[i..Len(seq)] in order
RECURSIVE DecodeAll(_, _, _, _)
DecodeAll(decoder, r, seq, i) ==
  IF i > Len(seq) THEN r
  ELSE LET next == rds_decoder_decode(decoder, r, seq[i]).rds
       IN IF next.stats.data_cnt >= 0
            THEN DecodeAll(decoder, next, seq, i + 1)
            ELSE next

\* The station heard while the host warms up: every group type with a
\* default handler once, an ODA announcement (RT+ on 11A) and an 11A group.
WarmPI == 13 * 4096 + 9 * 256 + 4 * 16 + 3   \* 0xD943
WarmGroups ==
  << Clean(WarmPI, BVal(0, 0, 1, 5, 24), 226 * 256 + 1, 16706),
     Clean(WarmPI, BVal(0, 0, 1, 5, 25), 1 * 256 + 5, 16963),
     Clean(WarmPI, BVal(1, 0, 1, 5, 0), 45078, 2113),
     Clean(WarmPI, BVal(2, 0, 1, 5, 16), 18533, 27756),
     Clean(WarmPI, BVal(2, 1, 1, 5, 1), WarmPI, 28525),
     Clean(WarmPI, BVal(3, 0, 1, 5, 22), 0, 19415),
     Clean(WarmPI, BVal(11, 0, 1, 5, 0), 4660, 22136),
     Clean(WarmPI, BVal(4, 0, 1, 5, 1), 45869, 59104),
     Clean(WarmPI, BVal(5, 0, 1, 5, 17), 257, 514),
     Clean(WarmPI, BVal(9, 0, 1, 5, 9), 771, 1028),
     Clean(WarmPI, BVal(10, 0, 1, 5, 17), 20304, 8224),
     Clean(WarmPI, BVal(14, 0, 1, 5, 0), 20046, 4369),
     Clean(WarmPI, BVal(14, 0, 1, 5, 4), 226 * 256 + 9, 4369),
     Clean(WarmPI, BVal(14, 0, 1, 5, 13), 65535, 4369),
     Clean(WarmPI, BVal(14, 1, 1, 5, 12), WarmPI, 4369) >>

WarmRds(decoder) == DecodeAll(decoder, ZeroRds, WarmGroups, 1)

\* the host's callbacks: 0 is a null pointer
CallbackChoices ==
  { [decode_cb |-> 1, clear_cb |-> 1, cb_data |-> 1],
    [decode_cb |-> 0, clear_cb |-> 1, cb_data |-> 2],
    [decode_cb |-> 1, clear_cb |-> 0, cb_data |-> 0] }

\* the decoders a host can have set up before the first group arrives
Decoders ==
  { rds_decoder_create([advanced_ps_decoding |-> FALSE]),
    rds_decoder_set_oda_callbacks(
      rds_decoder_create([advanced_ps_decoding |-> TRUE]), 1, 1, 1) }

(***************************************************************************)
(* The entry points as actions.  pre is the record before the entry point  *)
(* ran, last names the entry point and its argument.                       *)
(***************************************************************************)
DoDecode(g) ==
  LET res == rds_decoder_decode(dec, rds, g)
  IN /\ rds' = res.rds
     /\ calls' = res.calls
     /\ last' = [op |-> "decode", blocks |-> g, pre |-> rds]
     /\ steps' = steps + 1
     /\ UNCHANGED dec

DoReset ==
  LET res == rds_decoder_reset(dec, rds)
  IN /\ rds' = res.rds
     /\ calls' = res.calls
     /\ last' = [op |-> "reset", blocks |-> NoBlocks, pre |-> rds]
     /\ steps' = steps + 1
     /\ UNCHANGED dec

DoSetOdaCallbacks(cb) ==
  /\ dec' = rds_decoder_set_oda_callbacks(dec, cb.decode_cb, cb.clear_cb,
                                          cb.cb_data)
  /\ calls' = <<>>
  /\ last' = [op |-> "set_oda_callbacks", blocks |-> NoBlocks, pre |-> rds]
  /\ steps' = steps + 1
  /\ UNCHANGED rds

Setup(decoders, records) ==
  /\ dec \in decoders
  /\ rds \in records
  /\ last = [op |-> "create", blocks |-> NoBlocks, pre |-> rds]
  /\ calls = <<>>
  /\ steps = 0

(***************************************************************************)
(* Spec: any group type, with block A, B, C or D over its threshold or     *)
(* not, a reset or a change of callbacks, from a zeroed record or after    *)
(* the warm-up.                                                            *)
(***************************************************************************)
MaxSteps == 1

ErrorProfiles ==
  { <<0, 0, 0, 0>>, <<0, 2, 0, 0>>, <<0, 0, 3, 0>>, <<0, 0, 0, 3>> }

MainPI == 3 * 4096 + 0 * 256 + 3 * 16 + 9   \* 0x3039
MainGroups ==
  { WithErrors(Clean(MainPI, BVal(code, version, 0, 9, 17), 41377, 13124), e) :
      code \in 0..15, version \in 0..1, e \in ErrorProfiles }

Init ==
  \E d \in Decoders : Setup({d}, {ZeroRds, WarmRds(d)})

Decode == steps < MaxSteps /\ \E g \in MainGroups : DoDecode(g)

Reset == steps < MaxSteps /\ DoReset

SetOdaCallbacks ==
  steps < MaxSteps /\ \E cb \in CallbackChoices : DoSetOdaCallbacks(cb)

Next == Decode \/ Reset \/ SetOdaCallbacks

Spec == Init /\ [][Next]_vars


(***************************************************************************)
(* SpecPI: groups 2 and 15 of either version with every combination of     *)
(* the error classes of blocks A, B and C, from a zeroed record or after   *)
(* the warm-up.                                                            *)
(***************************************************************************)
MaxStepsPI == 1

PIGroups ==
  { WithErrors(Clean(4660, BVal(code, version, 1, 3, 1), 22136, 16705),
               <<ea, eb, ec, 0>>) :
      code \in {2, 15}, version \in 0..1, ea \in {0, 2, 3}, eb \in 0..3,
      ec \in 0..3 }

InitPI ==
  Setup({rds_decoder_create([advanced_ps_decoding |-> FALSE])},
        {ZeroRds, WarmRds(rds_decoder_create([advanced_ps_decoding |-> FALSE]))})

DecodePI == steps < MaxStepsPI /\ \E g \in PIGroups : DoDecode(g)

NextPI == DecodePI

SpecPI == InitPI /\ [][NextPI]_vars


(***************************************************************************)
(* SpecODA: 3A announcements of a null, a known and a new application id,  *)
(* with block D clean or not, groups of the announced types and resets,    *)
(* from an empty registry and from registries of 9 and 10 applications.    *)
(***************************************************************************)
MaxStepsODA == 2

\* a 3A: block B bits 4..0 name the group type, block D is the AID
ODAGroup3A(aid, low5, ed) ==
  WithErrors(Clean(WarmPI, BVal(3, 0, 1, 5, low5), 0, aid), <<0, 0, 0, ed>>)

\* 11A, 11B, 12A, 12B, 13A, 13B, 5A, 6A, 7A and 8A as bits 4..0 of block B
ODATargets == <<22, 23, 24, 25, 26, 27, 10, 12, 14, 16>>

\* the record after k stations' worth of announcements, AIDs 1001..1000+k
ODARegistry(decoder, k) ==
  DecodeAll(decoder, ZeroRds,
            [i \in 1..k |-> ODAGroup3A(1000 + i, ODATargets[i], 0)], 1)

ODAAnnouncements ==
  { ODAGroup3A(aid, low5, ed) :
      aid \in {0, 19415, 1001}, low5 \in {22, 10}, ed \in 0..1 }

\* 11A with block B accepted and rejected, 5A, 3B and 12A
ODATraffic ==
  { WithErrors(Clean(WarmPI, BVal(11, 0, 1, 5, 3), 4660, 22136), <<0, eb, 0, 0>>) :
      eb \in {0, 2} }
  \cup { Clean(WarmPI, BVal(code, version, 1, 5, 3), 4660, 22136) :
           code \in {5, 12}, version \in {0} }
  \cup { Clean(WarmPI, BVal(3, 1, 1, 5, 3), WarmPI, 22136) }

ODADecoders ==
  { rds_decoder_create([advanced_ps_decoding |-> FALSE]),
    rds_decoder_set_oda_callbacks(
      rds_decoder_create([advanced_ps_decoding |-> FALSE]), 1, 1, 7) }

InitODA ==
  \E d \in ODADecoders :
    Setup({d}, {ZeroRds, ODARegistry(d, 9), ODARegistry(d, 10)})

AnnounceODA ==
  steps < MaxStepsODA /\ \E g \in ODAAnnouncements : DoDecode(g)

DecodeODA == steps < MaxStepsODA /\ \E g \in ODATraffic : DoDecode(g)

ResetODA == steps < MaxStepsODA /\ DoReset

NextODA == AnnounceODA \/ DecodeODA \/ ResetODA

SpecODA == InitODA /\ [][NextODA]_vars


(***************************************************************************)
(* SpecAF: 0A and 14A (variant 4) groups carrying start and continuation   *)
(* blocks, from an empty record, from a method A list of 23 frequencies    *)
(* (tuned network and other network) and from 19 method B tables.          *)
(***************************************************************************)
MaxStepsAF == 2

\* block C of an AF group: two codes
AFPair(first_byte, second_byte) == first_byte * 256 + second_byte

AFGroup(c) == Clean(WarmPI, BVal(0, 0, 1, 5, 8), c, 8224)

EONAFGroup(c) == Clean(WarmPI, BVal(14, 0, 1, 5, 4), c, 4369)

\* a list of 25 frequencies in method A, cut after n continuation blocks
MethodAList(n) ==
  <<AFPair(249, 1)>> \o [k \in 1..n |-> AFPair(2 * k, 2 * k + 1)]

\* 23 frequencies of the tuned network and 23 of the other network
AFListRds(decoder) ==
  DecodeAll(decoder, ZeroRds,
            [i \in 1..12 |-> AFGroup(MethodAList(11)[i])]
            \o [i \in 1..12 |-> EONAFGroup(MethodAList(11)[i])], 1)

\* the start blocks of 19 method B tables, tuned frequency codes 101..119
AFTablesRds(decoder) ==
  DecodeAll(decoder, ZeroRds,
            [i \in 1..19 |-> AFGroup(AFPair(227, 100 + i))], 1)

AFBlocks ==
  { AFPair(226, 40), AFPair(227, 150), AFPair(227, 151), AFPair(225, 60),
    AFPair(226, 5), AFPair(41, 42), AFPair(40, 41), AFPair(5, 41),
    AFPair(41, 41), AFPair(250, 3), AFPair(205, 43) }

AFGroups ==
  { AFGroup(c) : c \in AFBlocks }
  \cup { WithErrors(AFGroup(AFPair(226, 44)), <<0, 0, 1, 0>>) }

EONAFGroups ==
  { EONAFGroup(c) : c \in {AFPair(226, 40), AFPair(41, 42), AFPair(5, 41)} }

AFDecoder == rds_decoder_create([advanced_ps_decoding |-> FALSE])

InitAF ==
  Setup({AFDecoder},
        {ZeroRds, AFListRds(AFDecoder), AFTablesRds(AFDecoder)})

DecodeAF == steps < MaxStepsAF /\ \E g \in AFGroups : DoDecode(g)

DecodeEONAF == steps < MaxStepsAF /\ \E g \in EONAFGroups : DoDecode(g)

ResetAF == steps < MaxStepsAF /\ DoReset

NextAF == DecodeAF \/ DecodeEONAF \/ ResetAF

SpecAF == InitAF /\ [][NextAF]_vars


(***************************************************************************)
(* SpecRoute: one application bound by a 3A to any of the 32 group types,  *)
(* then clean groups of any of the 32 types.                               *)
(***************************************************************************)
MaxStepsRoute == 1

\* the record after a 3A has bound RT+ to the type in bits 4..0 of block B
RouteRds(decoder, low5) ==
  DecodeAll(decoder, ZeroRds, <<ODAGroup3A(19415, low5, 0)>>, 1)

RouteGroups ==
  { Clean(MainPI, BVal(code, version, 0, 9, 17), 41377, 13124) :
      code \in 0..15, version \in 0..1 }

InitRoute ==
  \/ \E d \in ODADecoders :
       d.oda.decode_cb # 0 /\ Setup({d}, {RouteRds(d, low5) : low5 \in 0..31})
  \/ \E d \in ODADecoders :
       d.oda.decode_cb = 0 /\ Setup({d}, {RouteRds(d, low5) : low5 \in {4, 10}})

DecodeRoute == steps < MaxStepsRoute /\ \E g \in RouteGroups : DoDecode(g)

NextRoute == DecodeRoute

SpecRoute == InitRoute /\ [][NextRoute]_vars


(***************************************************************************)
(* SpecPS: group 0 in both PS modes, with block D clean, with errors and   *)
(* over its threshold, from a zeroed record and from a record that holds   *)
(* a complete PS.                                                          *)
(***************************************************************************)
MaxStepsPS == 3

\* "RADIO FM"
PSText == <<82, 65, 68, 73, 79, 32, 70, 77>>

\* a group 0: segment seg of the PS carries the bytes hi and lo; TA and MS
\* are set
PSGroup(version, seg, hi, lo, ed) ==
  WithErrors(Clean(WarmPI, BVal(0, version, 1, 5, 24 + seg),
                   AFPair(205, 205), hi * 256 + lo),
             <<0, 0, 0, ed>>)

\* the four segments of PSText, twice
PSRotation ==
  [i \in 1..8 |->
     PSGroup(0, (i - 1) % 4, PSText[2 * ((i - 1) % 4) + 1],
             PSText[2 * ((i - 1) % 4) + 2], 0)]

PSFullRds(decoder) == DecodeAll(decoder, ZeroRds, PSRotation, 1)

PSGroups ==
  { PSGroup(0, seg, d[1], d[2], 0) :
      seg \in {0, 3}, d \in {<<82, 65>>, <<88, 89>>} }
  \cup { PSGroup(0, 0, 88, 89, ed) : ed \in {2, 3} }
  \cup { PSGroup(1, 3, 70, 77, 0), PSGroup(1, 0, 88, 89, 3) }

PSDecoders ==
  { rds_decoder_create([advanced_ps_decoding |-> FALSE]),
    rds_decoder_create([advanced_ps_decoding |-> TRUE]) }

InitPS == \E d \in PSDecoders : Setup({d}, {ZeroRds, PSFullRds(d)})

DecodePS == steps < MaxStepsPS /\ \E g \in PSGroups : DoDecode(g)

NextPS == DecodePS

SpecPS == InitPS /\ [][NextPS]_vars

(***************************************************************************)
(* SpecPSRepeat: a station repeats one eight-byte PS in error-free 0A      *)
(* groups, segments 0..3 in rotation, to an advanced-PS decoder that       *)
(* starts from the reset record.                                           *)
(***************************************************************************)
PSRepetitions == 20

\* "RADIO FM", "AAAAAAAA", "Jazz" followed by four zero bytes, "HIT 98.5"
PSTexts ==
  { PSText,
    <<65, 65, 65, 65, 65, 65, 65, 65>>,
    <<74, 97, 122, 122, 0, 0, 0, 0>>,
    <<72, 73, 84, 32, 57, 56, 46, 53>> }

PSRepeatGroup(ps, seg) ==
  Clean(WarmPI, BVal(0, 0, 0, 5, 8 + seg), AFPair(205, 205),
        ps[2 * seg + 1] * 256 + ps[2 * seg + 2])

\* the text the station is sending, known from the group before
PSOnAir ==
  IF steps = 0 THEN PSTexts
  ELSE { ps \in PSTexts : last.blocks = PSRepeatGroup(ps, (steps - 1) % 4) }

PSRepeatDecoder == rds_decoder_create([advanced_ps_decoding |-> TRUE])

\* the record after rds_decoder_reset, here of a decoder that was in use
InitPSRepeat ==
  Setup({PSRepeatDecoder},
        {rds_decoder_reset(PSRepeatDecoder, WarmRds(PSRepeatDecoder)).rds})

DeliverPS ==
  /\ steps < 4 * PSRepetitions
  /\ \E ps \in PSOnAir : DoDecode(PSRepeatGroup(ps, steps % 4))

NextPSRepeat == DeliverPS

SpecPSRepeat == InitPSRepeat /\ [][NextPSRepeat]_vars

(***************************************************************************)
(* SpecDisplay: the groups that write a display buffer (0A, 2A, 2B, 10A)   *)
(* in both PS modes, on a zeroed record, after the warm-up and on a record *)
(* whose PS lacks one segment and whose Radiotext and PTYN are written.    *)
(***************************************************************************)
MaxStepsDisplay == 1

\* a group 2: text flag ab, segment seg, blocks C and D with classes ec, ed
RTGroup(version, ab, seg, c, d, ec, ed) ==
  WithErrors(Clean(WarmPI, BVal(2, version, 0, 5, ab * 16 + seg), c, d),
             <<0, 0, ec, ed>>)

\* a group 10A: flag ab, segment seg, "Foot" or "ball"
PTYNGroup(ab, seg, ec, ed) ==
  WithErrors(Clean(WarmPI, BVal(10, 0, 0, 5, ab * 16 + seg),
                   IF seg = 0 THEN 70 * 256 + 111 ELSE 98 * 256 + 97,
                   IF seg = 0 THEN 111 * 256 + 116 ELSE 108 * 256 + 108),
             <<0, 0, ec, ed>>)

\* segments 1, 2, 3 of PSText twice, Radiotext up to position 63 in both
\* buffers, a whole PTYN
DisplayFill ==
  << PSRotation[2], PSRotation[3], PSRotation[4],
     PSRotation[6], PSRotation[7], PSRotation[8],
     RTGroup(0, 1, 8, 77 * 256 + 79, 82 * 256 + 69, 0, 0),
     RTGroup(0, 1, 15, 84 * 256 + 69, 88 * 256 + 84, 0, 0),
     RTGroup(0, 0, 15, 84 * 256 + 69, 88 * 256 + 84, 0, 0),
     PTYNGroup(1, 0, 0, 0), PTYNGroup(1, 1, 0, 0) >>

DisplayFullRds(decoder) == DecodeAll(decoder, ZeroRds, DisplayFill, 1)

\* "HE", "LO", "L\r", "\rH", "H\r"
DisplayGroups ==
  { PSGroup(0, 0, 82, 65, 0), PSGroup(0, 0, 88, 89, 0) }
  \cup { RTGroup(0, 1, 2, 72 * 256 + 69, 76 * 256 + 79, 0, 0),
         RTGroup(0, 1, 2, 72 * 256 + 69, 76 * 256 + 13, 0, 0),
         RTGroup(0, 1, 2, 13 * 256 + 72, 72 * 256 + 69, 0, 2),
         RTGroup(0, 0, 2, 72 * 256 + 13, 76 * 256 + 79, 2, 0),
         RTGroup(0, 1, 15, 72 * 256 + 69, 76 * 256 + 79, 0, 0),
         RTGroup(0, 1, 2, 13 * 256 + 72, 72 * 256 + 69, 3, 0),
         RTGroup(0, 1, 2, 72 * 256 + 69, 76 * 256 + 13, 0, 3) }
  \cup { RTGroup(1, 1, 2, WarmPI, 72 * 256 + 13, 0, 0),
         RTGroup(1, 1, 15, WarmPI, 72 * 256 + 69, 0, 0),
         RTGroup(1, 1, 2, WarmPI, 13 * 256 + 72, 3, 2),
         RTGroup(1, 0, 2, WarmPI, 72 * 256 + 69, 0, 0),
         RTGroup(1, 0, 2, WarmPI, 72 * 256 + 13, 0, 3) }
  \cup { PTYNGroup(ab, seg, e[1], e[2]) :
           ab \in 0..1, seg \in 0..1,
           e \in {<<0, 0>>, <<3, 2>>, <<2, 3>>, <<3, 3>>} }

InitDisplay ==
  \E d \in PSDecoders : Setup({d}, {ZeroRds, WarmRds(d), DisplayFullRds(d)})

DecodeDisplay == steps < MaxStepsDisplay /\ \E g \in DisplayGroups : DoDecode(g)

NextDisplay == DecodeDisplay

SpecDisplay == InitDisplay /\ [][NextDisplay]_vars

(***************************************************************************)
(* SpecAFExample: from the reset record, three error-free 0A groups whose  *)
(* block C carries (226, 1), (1, 5), (3, 1); the PS segment and the PS     *)
(* bytes of each group are the station's choice.                           *)
(***************************************************************************)
AFExample == <<AFPair(226, 1), AFPair(1, 5), AFPair(3, 1)>>

AFExampleGroup(c, seg, d) == Clean(WarmPI, BVal(0, 0, 1, 5, 8 + seg), c, d)

InitAFExample ==
  \E d \in PSDecoders : Setup({d}, {rds_decoder_reset(d, WarmRds(d)).rds})

DeliverAFExample ==
  /\ steps < Len(AFExample)
  /\ \E seg \in {0, 3}, d \in {82 * 256 + 65, 8224} :
       DoDecode(AFExampleGroup(AFExample[steps + 1], seg, d))

NextAFExample == DeliverAFExample

SpecAFExample == InitAFExample /\ [][NextAFExample]_vars

(***************************************************************************)
(* SpecClock: group 4A with every combination of error classes of blocks   *)
(* B, C and D, on a zeroed record and on a record that holds a clock.      *)
(***************************************************************************)
MaxStepsClock == 1

\* B bits 1..0 = 01, C = 0xB32D, D = 0xE6C0 (offset 0), and a clock with
\* the seventeenth day bit set, 23:59, offset of two half hours, negative
ClockTimes ==
  { [low5 |-> 1, c |-> 45869, d |-> 59072],
    [low5 |-> 3, c |-> 45869, d |-> 7 * 4096 + 59 * 64 + 32 + 2] }

ClockGroup(t, e) ==
  WithErrors(Clean(WarmPI, BVal(4, 0, 0, 5, t.low5), t.c, t.d), e)

ClockGroups ==
  { ClockGroup(t, <<0, eb, ec, ed>>) :
      t \in ClockTimes, eb \in 0..3, ec \in 0..3, ed \in 0..3 }

InitClock == \E d \in PSDecoders : Setup({d}, {ZeroRds, WarmRds(d)})

DecodeClock == steps < MaxStepsClock /\ \E g \in ClockGroups : DoDecode(g)

NextClock == DecodeClock

SpecClock == InitClock /\ [][NextClock]_vars

(***************************************************************************)
(* SpecAFProto: start blocks and continuation pairs of every kind (with    *)
(* and without the tuned frequency, with filler, with the LF/MF marker,    *)
(* declared count 1) on a record that was never reset, after a reset, with *)
(* a table whose method is not settled, with a method A and a method B     *)
(* table in the middle of a list, and with all 20 tables in use.           *)
(***************************************************************************)
MaxStepsAFProto == 2

\* the lists that were on air before, by the state they left
AFProtoHistories ==
  { <<>>,
    <<AFPair(229, 40)>>,
    <<AFPair(229, 40), AFPair(40, 45)>>,
    <<AFPair(229, 40), AFPair(41, 42)>>,
    [i \in 1..20 |-> AFPair(227, 100 + i)] }

AFProtoRecords(decoder) ==
  { ZeroRds }
  \cup { DecodeAll(decoder, rds_decoder_reset(decoder, ZeroRds).rds,
                   [i \in 1..Len(h) |-> AFGroup(h[i])], 1) :
           h \in AFProtoHistories }

AFProtoBlocks ==
  { AFPair(229, 40), AFPair(227, 60), AFPair(225, 50), AFPair(227, 250),
    AFPair(40, 45), AFPair(45, 40), AFPair(30, 40), AFPair(40, 30),
    AFPair(41, 42), AFPair(205, 43), AFPair(250, 3), AFPair(3, 250),
    AFPair(205, 205), AFPair(40, 205) }

AFProtoGroups ==
  { AFGroup(c) : c \in AFProtoBlocks }
  \cup { WithErrors(AFGroup(AFPair(41, 42)), <<0, 0, 1, 0>>) }

InitAFProto == Setup({AFDecoder}, AFProtoRecords(AFDecoder))

DecodeAFProto == steps < MaxStepsAFProto /\ \E g \in AFProtoGroups : DoDecode(g)

NextAFProto == DecodeAFProto

SpecAFProto == InitAFProto /\ [][NextAFProto]_vars

(***************************************************************************)
(* SpecAFList: from the reset record, one pass of a method A list of n     *)
(* distinct UHF frequencies, 2 <= n <= 25: the start block with the first  *)
(* frequency, then the others in pairs, the last pair padded with filler   *)
(* when n is even.  Frequency i of the list of n has code n + i - 1.       *)
(***************************************************************************)
\* the number of blocks of the list of n frequencies
AFListBlocks(n) == 1 + n \div 2

\* block s of the list of n frequencies
AFListBlock(n, s) ==
  IF s = 1 THEN AFPair(224 + n, n)
  ELSE AFPair(n + 2 * s - 3, IF 2 * s - 1 <= n THEN n + 2 * s - 2 ELSE 205)

\* the length of the list on air, known from the block before
AFListOnAir ==
  IF steps = 0 THEN 2..AF_TABLE_ENTRIES
  ELSE { n \in 2..AF_TABLE_ENTRIES :
           /\ steps <= AFListBlocks(n)
           /\ last.blocks = AFGroup(AFListBlock(n, steps)) }

InitAFList ==
  Setup({AFDecoder}, {rds_decoder_reset(AFDecoder, WarmRds(AFDecoder)).rds})

DeliverAFList ==
  \E n \in AFListOnAir :
    /\ steps < AFListBlocks(n)
    /\ DoDecode(AFGroup(AFListBlock(n, steps + 1)))

NextAFList == DeliverAFList

SpecAFList == InitAFList /\ [][NextAFList]_vars

(***************************************************************************)
(* SpecAFRepeat: a station sends the method B lists of three tuned         *)
(* frequencies, one whole list after another in any order, again and       *)
(* again, from the reset record.  The list of tuned code t declares five   *)
(* frequencies: (229, t), (t, t + 5), (t - 10, t).                         *)
(***************************************************************************)
AFRedeliveries == 4

AFRepeatTuned == {40, 60, 80}

AFRepeatBlock(t, s) ==
  IF s = 0 THEN AFPair(229, t)
  ELSE IF s = 1 THEN AFPair(t, t + 5)
  ELSE AFPair(t - 10, t)

\* the lists that may go on: any at the start of a list, else the one whose
\* block came last
AFRepeatOnAir ==
  IF steps % 3 = 0 THEN AFRepeatTuned
  ELSE { t \in AFRepeatTuned :
           last.blocks = AFGroup(AFRepeatBlock(t, (steps - 1) % 3)) }

InitAFRepeat ==
  Setup({AFDecoder}, {rds_decoder_reset(AFDecoder, WarmRds(AFDecoder)).rds})

DeliverAFRepeat ==
  /\ steps < 3 * AFRedeliveries
  /\ \E t \in AFRepeatOnAir : DoDecode(AFGroup(AFRepeatBlock(t, steps % 3)))

NextAFRepeat == DeliverAFRepeat

SpecAFRepeat == InitAFRepeat /\ [][NextAFRepeat]_vars

(***************************************************************************)
(* Claims.                                                                 *)
(***************************************************************************)
LastDecode == last.op = "decode"

LastReset == last.op = "reset"

\* the last entry point decoded a group whose block B was within threshold
LastAccepted == LastDecode /\ last.blocks.b.errors <= BLERB_MAX

\* C1 as stated: a group whose block B error class is greater than 1 leaves
\* every field of the record unchanged except stats.blckb_errors and
\* stats.data_cnt.
C1_Original ==
  (LastDecode /\ last.blocks.b.errors > 1) =>
    [rds EXCEPT !.stats.blckb_errors = 0, !.stats.data_cnt = 0]
      = [last.pre EXCEPT !.stats.blckb_errors = 0, !.stats.data_cnt = 0]

\* C1 amended: a group whose block B error class is greater than 1 adds one
\* to stats.data_cnt and stats.blckb_errors; if block A's error class is at
\* most 2 it also latches pi_code from block A, sets RDS_PI_CODE and counts
\* the PI code; every other field is unchanged, and with block A over its
\* threshold pi_code and valid_values are unchanged too.
C1_BlockBRejected ==
  (LastDecode /\ last.blocks.b.errors > 1) =>
    LET p == last.pre
        counted == [p EXCEPT !.stats.data_cnt = (@ + 1) % 65536,
                             !.stats.blckb_errors = (@ + 1) % 65536]
    IN IF last.blocks.a.errors <= 2
         THEN rds = [counted EXCEPT
                       !.pi_code = last.blocks.a.val,
                       !.valid_values = @ \cup {"RDS_PI_CODE"},
                       !.stats.counts[PKTCNT_PI_CODE] = @ + 1]
         ELSE rds = counted

C1_Witness ==
  /\ LastDecode
  /\ last.blocks.b.errors > 1
  /\ last.blocks.a.errors <= 2
  /\ last.pre.pi_code = WarmPI
  /\ rds.pi_code = last.blocks.a.val
  /\ rds.stats.blckb_errors = 1

\* C2: decode writes pi_code from block C of a 'B' version group when block
\* B is accepted and block C's error class is at most 2 and strictly less
\* than block B's; failing that, from block A when its error class is at
\* most 2; in every other case pi_code is unchanged.
C2_PiCodeSources ==
  LastDecode =>
    LET g == last.blocks
        from_c == /\ (g.b.val \div 2048) % 2 = 1
                  /\ g.b.errors <= 1
                  /\ g.c.errors <= 2
                  /\ g.c.errors < g.b.errors
    IN rds.pi_code = IF from_c THEN g.c.val
                     ELSE IF g.a.errors <= 2 THEN g.a.val
                     ELSE last.pre.pi_code

\* both sources applied and block C won
C2_Witness ==
  /\ LastDecode
  /\ last.blocks.a.errors <= 2
  /\ last.blocks.b.errors = 1
  /\ last.blocks.c.errors = 0
  /\ (last.blocks.b.val \div 2048) % 2 = 1
  /\ last.blocks.a.val # last.blocks.c.val
  /\ last.pre.pi_code = WarmPI
  /\ rds.pi_code = last.blocks.c.val

\* the group g with the value of every block over its threshold set to v
Scrub(g, v) ==
  [a |-> IF g.a.errors > BLERA_MAX THEN [g.a EXCEPT !.val = v] ELSE g.a,
   b |-> IF g.b.errors > BLERB_MAX THEN [g.b EXCEPT !.val = v] ELSE g.b,
   c |-> IF g.c.errors > BLERC_MAX THEN [g.c EXCEPT !.val = v] ELSE g.c,
   d |-> IF g.d.errors > BLERD_MAX THEN [g.d EXCEPT !.val = v] ELSE g.d]

\* C3: no field of the record is written with data taken from a block whose
\* error class exceeds its threshold: the record after a decode is the one
\* the same call leaves when the values of the rejected blocks are replaced
\* by any other value.
C3_NoDataFromRejectedBlock ==
  LastDecode =>
    \A v \in {0, 65535} :
      rds = rds_decoder_decode(dec, last.pre, Scrub(last.blocks, v)).rds

\* every byte of the record r is zero
IsZeroFreq(f) == f.band = 0 /\ f.attrib = 0 /\ f.freq = 0

IsZeroPic(p) == p.day = 0 /\ p.hour = 0 /\ p.minute = 0

IsZeroBlock(b) == b.val = 0 /\ b.errors = 0

IsZeroArray(f) == \A i \in DOMAIN f : f[i] = 0

IsZeroAfDecodeTable(t) ==
  /\ IsZeroFreq(t.table.tuned_freq)
  /\ t.table.count = 0
  /\ DOMAIN t.table.entry = 0..24
  /\ \A i \in DOMAIN t.table.entry : IsZeroFreq(t.table.entry[i])
  /\ t.enc_method = 0
  /\ t.pvt.band = 0 /\ t.pvt.prev_enc_method = 0 /\ t.pvt.expected_cnt = 0

IsZeroRt(t) ==
  /\ IsZeroArray(t.display) /\ IsZeroArray(t.pvt.hi_prob)
  /\ IsZeroArray(t.pvt.lo_prob) /\ IsZeroArray(t.pvt.hi_prob_cnt)

IsZeroRecord(r) ==
  /\ r.pi_code = 0 /\ IsZeroPic(r.pic) /\ r.pty = 0
  /\ ~r.tp_code /\ ~r.ta_code /\ ~r.music
  /\ IsZeroArray(r.ps.display) /\ IsZeroArray(r.ps.pvt.hi_prob)
  /\ IsZeroArray(r.ps.pvt.lo_prob) /\ IsZeroArray(r.ps.pvt.hi_prob_cnt)
  /\ IsZeroRt(r.rt.a) /\ IsZeroRt(r.rt.b) /\ r.rt.decode_rt = 0
  /\ ~r.clock.day_high /\ r.clock.day_low = 0 /\ r.clock.hour = 0
  /\ r.clock.minute = 0 /\ r.clock.utc_offset = 0
  /\ ~r.slc.la /\ r.slc.variant_code = 0 /\ r.slc.data = 0
  /\ IsZeroArray(r.ptyn.display) /\ ~r.ptyn.last_ab
  /\ r.af.pvt.current_table_idx = 0 /\ r.af.count = 0
  /\ DOMAIN r.af.table = 0..19
  /\ \A i \in DOMAIN r.af.table : IsZeroAfDecodeTable(r.af.table[i])
  /\ IsZeroArray(r.eon.on.ps) /\ r.eon.on.pty = 0
  /\ ~r.eon.on.tp_code /\ ~r.eon.on.ta_code
  /\ IsZeroAfDecodeTable(r.eon.on.af)
  /\ r.eon.on.pi_code = 0 /\ IsZeroPic(r.eon.on.pic)
  /\ \A i \in DOMAIN r.eon.maps :
       IsZeroFreq(r.eon.maps[i].tn_tuned_freq)
       /\ IsZeroFreq(r.eon.maps[i].on_freq)
  /\ r.oda_cnt = 0
  /\ DOMAIN r.oda = 0..9
  /\ \A i \in DOMAIN r.oda :
       r.oda[i].id = 0 /\ r.oda[i].gt.code = 0 /\ r.oda[i].gt.version = NUL
       /\ r.oda[i].pkt_count = 0
  /\ \A ch \in DOMAIN r.tdc.data : IsZeroArray(r.tdc.data[ch])
  /\ r.tdc.curr_channel = 0
  /\ IsZeroBlock(r.ews.b) /\ IsZeroBlock(r.ews.c) /\ IsZeroBlock(r.ews.d)
  /\ IsZeroArray(r.stats.counts)
  /\ \A i \in DOMAIN r.stats.groups :
       r.stats.groups[i].a = 0 /\ r.stats.groups[i].b = 0
  /\ r.stats.data_cnt = 0 /\ r.stats.blckb_errors = 0
  /\ r.valid_values = {}

\* r is zero everywhere except af.pvt.current_table_idx, which is -1
IsResetRecord(r) ==
  /\ r.af.pvt.current_table_idx = -1
  /\ IsZeroRecord([r EXCEPT !.af.pvt.current_table_idx = 0])

\* the record before the last entry point held decoded data of every kind
PreWasWarm ==
  /\ RDS_VALUES \ {"RDS_FBT", "RDS_MC", "RDS_PS"} \subseteq last.pre.valid_values
  /\ last.pre.oda_cnt > 0
  /\ last.pre.af.count > 0
  /\ last.pre.eon.on.af.table.count > 0
  /\ last.pre.oda[0].pkt_count > 0

\* C4: after rds_decoder_reset every field of the record is zero, except
\* af.pvt.current_table_idx, which is -1.
C4_ResetZeroes == LastReset => IsResetRecord(rds)

C4_Witness == LastReset /\ PreWasWarm /\ IsResetRecord(rds)

\* C5: a reset invokes the bound clear_cb exactly once, with the bound user
\* data and with the record already zeroed, and invokes nothing when no
\* clear_cb is bound; a decode never invokes clear_cb.
C5_ClearCallback ==
  /\ LastReset =>
       IF dec.oda.clear_cb # 0
         THEN /\ Len(calls) = 1
              /\ calls[1].fn = "clear_cb"
              /\ calls[1].target = dec.oda.clear_cb
              /\ calls[1].cb_data = dec.oda.cb_data
              /\ IsResetRecord(calls[1].rds)
         ELSE calls = <<>>
  /\ LastDecode => \A i \in 1..Len(calls) : calls[i].fn # "clear_cb"

C5_Witness ==
  /\ LastReset
  /\ PreWasWarm
  /\ Len(calls) = 1
  /\ calls[1].fn = "clear_cb"
  /\ calls[1].cb_data = 1


\* the 21 AF tables of a record: 20 of the tuned network, one of the other
AfTablesOf(r) ==
  [i \in 0..AF_GROUP_TABLES |->
     IF i < AF_GROUP_TABLES THEN r.af.table[i].table ELSE r.eon.on.af.table]

\* the last group's block C, as the two codes of an AF block
LastFirstByte == last.blocks.c.val \div 256

LastSecondByte == last.blocks.c.val % 256

\* the last entry point decoded an accepted 0A with a clean block C
LastAFGroup ==
  /\ LastAccepted
  /\ last.blocks.b.val \div 2048 = 0
  /\ last.blocks.c.errors = 0

\* C6: every AF table's entry count is at most 25 and the group's table
\* count at most 20, and no decode lowers an entry count or the table count;
\* the table of the other network is bounded and monotonic in the same way.
C6_AfCountsMonotonicBounded ==
  /\ \A i \in 0..AF_GROUP_TABLES : AfTablesOf(rds)[i].count <= 25
  /\ rds.af.count <= 20
  /\ LastDecode =>
       /\ \A i \in 0..AF_GROUP_TABLES :
            AfTablesOf(last.pre)[i].count <= AfTablesOf(rds)[i].count
       /\ last.pre.af.count <= rds.af.count

\* a start block with a new frequency arrived at a table of 25 entries
C6_Witness ==
  /\ LastAFGroup
  /\ LastFirstByte \in 225..249
  /\ last.pre.af.count = 1
  /\ last.pre.af.table[0].table.count = 25
  /\ \A i \in 0..24 :
       last.pre.af.table[0].table.entry[i].freq # 875 + LastSecondByte
  /\ rds.af.pvt.current_table_idx = 0
  /\ rds.af.table[0].table.count = 25

\* C7: in every AF table the first count entries are pairwise distinct as
\* pairs of band and frequency.
C7_AfEntriesDistinct ==
  \A t \in 0..AF_GROUP_TABLES :
    LET table == AfTablesOf(rds)[t]
    IN \A i, j \in 0..(table.count - 1) :
         (table.entry[i].band = table.entry[j].band
          /\ table.entry[i].freq = table.entry[j].freq) => i = j

\* a continuation block delivered a frequency the table already held and
\* one it did not: the table stored the new one and still holds the other
\* once
C7_Witness ==
  /\ LastAFGroup
  /\ LastFirstByte \in 1..204
  /\ LastSecondByte \in 1..204
  /\ LET before == last.pre.af.table[0].table
         after == rds.af.table[0].table
         Holds(table, code) ==
           {i \in 0..(table.count - 1) :
              table.entry[i].band = AF_BAND_UHF
              /\ table.entry[i].freq = 875 + code}
     IN /\ rds.af.pvt.current_table_idx = 0
        /\ last.pre.af.table[0].pvt.expected_cnt > 0
        /\ Holds(before, LastFirstByte) # {}
        /\ Holds(before, LastSecondByte) = {}
        /\ after.count = before.count + 1
        /\ Cardinality(Holds(after, LastFirstByte)) = 1
        /\ Cardinality(Holds(after, LastSecondByte)) = 1

\* C8: oda_cnt is at most 10, every active entry has a non-zero id and no
\* two active entries have the same id.
C8_OdaRegistry ==
  /\ rds.oda_cnt <= 10
  /\ \A i \in 0..(rds.oda_cnt - 1) : rds.oda[i].id # 0
  /\ \A i, j \in 0..(rds.oda_cnt - 1) :
       rds.oda[i].id = rds.oda[j].id => i = j

\* the last entry point decoded an accepted 3A
Last3A == LastAccepted /\ last.blocks.b.val \div 2048 = 6

\* the AID of the last group is the id of an active entry of r
Registered(r) ==
  \E i \in 0..(r.oda_cnt - 1) : r.oda[i].id = last.blocks.d.val

\* a full registry refused a new application and kept its ten entries
C8_Witness ==
  /\ Last3A
  /\ last.blocks.d.errors = 0
  /\ last.blocks.d.val # 0
  /\ last.pre.oda_cnt = 10
  /\ ~Registered(last.pre)
  /\ rds.oda_cnt = 10

\* C9: an accepted 3A with a clean block D and an AID other than 0 adds one
\* to oda_cnt when the AID is new and fewer than 10 entries are active, and
\* nothing otherwise; when the AID was registered or was appended, the entry
\* holding it is bound to the group type in bits 4..1 and bit 0 of block B;
\* when the AID is new and 10 entries are active the ODA table is unchanged.
\* A 3A with errors in block D or with AID 0 leaves the ODA table unchanged.
C9_OdaAnnouncement ==
  Last3A =>
    LET g == last.blocks
        p == last.pre
        fits == p.oda_cnt < 10
        announced == [code |-> (g.b.val \div 2) % 16,
                      version |-> IF g.b.val % 2 = 1 THEN "B" ELSE "A"]
    IN IF g.d.errors = 0 /\ g.d.val # 0
         THEN /\ rds.oda_cnt
                   = p.oda_cnt + (IF ~Registered(p) /\ fits THEN 1 ELSE 0)
              /\ (Registered(p) \/ fits) =>
                   \E i \in 0..(rds.oda_cnt - 1) :
                     rds.oda[i].id = g.d.val /\ rds.oda[i].gt = announced
              /\ (~Registered(p) /\ ~fits) =>
                   rds.oda = p.oda /\ rds.oda_cnt = p.oda_cnt
         ELSE rds.oda = p.oda /\ rds.oda_cnt = p.oda_cnt

\* the tenth application was appended
C9_Witness ==
  /\ Last3A
  /\ last.blocks.d.errors = 0
  /\ last.blocks.d.val = 19415
  /\ last.pre.oda_cnt = 9
  /\ rds.oda_cnt = 10
  /\ rds.oda[9].id = 19415
  /\ rds.oda[9].gt = [code |-> 11, version |-> "A"]

\* the group type of the last group
LastGt ==
  [code |-> last.blocks.b.val \div 4096,
   version |-> IF (last.blocks.b.val \div 2048) % 2 = 1 THEN "B" ELSE "A"]

\* the last entry point decoded an accepted group of a type that the
\* dispatcher hands to the ODA route when an application is bound to it
LastRoutedToODA ==
  /\ LastAccepted
  /\ \/ LastGt.code \in {5, 6, 7, 8, 9, 11, 12, 13}
     \/ LastGt.code \in {3, 4, 10} /\ LastGt.version = "B"

\* the active entries of the record before the last group bound to its type
BoundToLastGt ==
  {i \in 0..(last.pre.oda_cnt - 1) : last.pre.oda[i].gt = LastGt}

\* the last group was delivered to entry i: its counter went up by one and,
\* if a decode callback is bound, it was invoked once with the entry's id,
\* the group's blocks and type and the bound user data
DeliveredTo(i) ==
  /\ rds.oda[i].pkt_count = (last.pre.oda[i].pkt_count + 1) % 65536
  /\ IF dec.oda.decode_cb # 0
       THEN /\ Len(calls) = 1
            /\ calls[1].fn = "decode_cb"
            /\ calls[1].target = dec.oda.decode_cb
            /\ calls[1].app_id = last.pre.oda[i].id
            /\ calls[1].blocks = last.blocks
            /\ calls[1].gt = LastGt
            /\ calls[1].cb_data = dec.oda.cb_data
       ELSE calls = <<>>

\* C10 as stated: a group of type G routed to ODA is delivered to the entry
\* of every application that a 3A has bound to G.
C10_Original ==
  LastRoutedToODA => \A i \in BoundToLastGt : DeliveredTo(i)

\* C10 amended: a group of type G routed to ODA is delivered to the entry
\* of the application bound to G, provided no active entry of lower index is
\* bound to G as well; the group is delivered to the lowest-indexed entry
\* bound to G and the counters of the other entries are unchanged.
C10_OdaDelivery ==
  LastRoutedToODA =>
    \A i \in BoundToLastGt :
      IF \A j \in BoundToLastGt : i <= j
        THEN DeliveredTo(i)
        ELSE rds.oda[i].pkt_count = last.pre.oda[i].pkt_count

\* RT+ was bound to 11A, an 11A arrived and the host was called with RT+
C10_Witness ==
  /\ LastRoutedToODA
  /\ LastGt = [code |-> 11, version |-> "A"]
  /\ \E i \in BoundToLastGt :
       /\ last.pre.oda[i].id = 19415
       /\ DeliveredTo(i)
       /\ rds.oda[i].pkt_count = 1
  /\ Len(calls) = 1
  /\ calls[1].app_id = 19415


\* the parts of the record that the default handlers of the groups own
DefaultHandlerFields(r) ==
  [ps |-> r.ps, rt |-> r.rt, af |-> r.af, clock |-> r.clock, ptyn |-> r.ptyn,
   tdc |-> r.tdc, ews |-> r.ews, eon |-> r.eon, pic |-> r.pic, slc |-> r.slc,
   ta_code |-> r.ta_code, music |-> r.music,
   valid |-> r.valid_values \ {"RDS_PI_CODE", "RDS_PTY", "RDS_TP_CODE"},
   counts |-> [i \in (0..(PKTCNT_NUM - 1))
                       \ {PKTCNT_PI_CODE, PKTCNT_PTY, PKTCNT_TP_CODE} |->
                 r.stats.counts[i]]]

\* the last group went to the ODA route and to no default handler
Diverted ==
  /\ \E i \in BoundToLastGt : DeliveredTo(i)
  /\ DefaultHandlerFields(rds) = DefaultHandlerFields(last.pre)

\* C11 as stated: an accepted group of any code and version whose type is
\* bound to an active ODA entry is diverted to the ODA dispatch, and no
\* field owned by a default handler is modified.
C11_Original ==
  (LastAccepted /\ BoundToLastGt # {}) => Diverted

\* C11 amended: an accepted group of type 3B, 4B, 5A/B, 6A/B, 7A/B, 8A/B,
\* 9A/B, 10B, 11A/B, 12A/B or 13A/B whose type is bound to an active ODA
\* entry is diverted: the counter goes up, decode_cb is invoked if bound and
\* no field owned by a default handler is modified.  A group of type 0A/B,
\* 1A/B, 2A/B, 3A, 4A, 10A, 14A/B or 15A/B is never diverted: no callback is
\* invoked and no packet counter changes, whatever is bound to its type.
C11_OdaDiversion ==
  /\ (LastRoutedToODA /\ BoundToLastGt # {}) => Diverted
  /\ (LastAccepted /\ ~LastRoutedToODA) =>
       /\ calls = <<>>
       /\ \A i \in 0..(ODA_ENTRIES - 1) :
            rds.oda[i].pkt_count = last.pre.oda[i].pkt_count

\* a 5A carrying data arrived while 5A was bound: the host was called and
\* the TDC buffers were left alone
C11_Witness ==
  /\ LastRoutedToODA
  /\ LastGt = [code |-> 5, version |-> "A"]
  /\ last.blocks.c.val # 0
  /\ last.blocks.c.errors = 0
  /\ BoundToLastGt = {0}
  /\ Len(calls) = 1
  /\ rds.oda[0].pkt_count = 1
  /\ rds.tdc = last.pre.tdc
  /\ "RDS_TDC" \notin rds.valid_values


\* the last entry point decoded an accepted group 0A or 0B
LastGroup0 == LastAccepted /\ last.blocks.b.val \div 4096 = 0

\* the position of the first of the two PS bytes of the last group
LastPsIdx == (last.blocks.b.val % 4) * 2

\* C12: in simple PS mode an accepted group 0 whose block D is within its
\* threshold stores the two bytes of D at the pair index of bits 1..0 of B,
\* leaves the other six display bytes alone, sets RDS_PS at once and never
\* touches hi_prob, lo_prob or hi_prob_cnt.
C12_SimplePs ==
  (LastGroup0 /\ ~dec.advanced_ps_decoding /\ last.blocks.d.errors <= 2) =>
    /\ rds.ps.display =
         [last.pre.ps.display EXCEPT
            ![LastPsIdx] = last.blocks.d.val \div 256,
            ![LastPsIdx + 1] = last.blocks.d.val % 256]
    /\ "RDS_PS" \in rds.valid_values
    /\ rds.ps.pvt = last.pre.ps.pvt

\* a first group 0 with errors in block D showed its two bytes at once
C12_Witness ==
  /\ LastGroup0
  /\ ~dec.advanced_ps_decoding
  /\ last.blocks.d.errors = 2
  /\ "RDS_PS" \notin last.pre.valid_values
  /\ "RDS_PS" \in rds.valid_values
  /\ rds.ps.display[0] = 88 /\ rds.ps.display[1] = 89
  /\ rds.ps.display[2] = 0

\* the records around the two byte updates of the last group 0: before the
\* first, between the two, after the second
PsByteUpdates ==
  LET mid == update_ps_advanced(last.pre, LastPsIdx,
                                last.blocks.d.val \div 256)
  IN << last.pre, mid,
        update_ps_advanced(mid, LastPsIdx + 1, last.blocks.d.val % 256) >>

\* every confidence counter of r has reached the validation limit
PsComplete(r) == \A i \in 0..7 : r.ps.pvt.hi_prob_cnt[i] >= 2

\* C13: in advanced PS mode a byte update after which all eight hi_prob_cnt
\* are at least 2 sets RDS_PS and leaves ps.display equal to hi_prob; every
\* other byte update, and every group that updates no PS byte, leaves
\* ps.display and the RDS_PS bit as they were.
C13_AdvancedPs ==
  (LastDecode /\ dec.advanced_ps_decoding) =>
    IF LastGroup0 /\ last.blocks.d.errors <= 2
      THEN /\ PsByteUpdates[3].ps = rds.ps
           /\ ("RDS_PS" \in PsByteUpdates[3].valid_values)
                <=> ("RDS_PS" \in rds.valid_values)
           /\ \A k \in 1..2 :
                LET x == PsByteUpdates[k]
                    y == PsByteUpdates[k + 1]
                IN IF PsComplete(y)
                     THEN /\ y.ps.display = y.ps.pvt.hi_prob
                          /\ "RDS_PS" \in y.valid_values
                     ELSE /\ y.ps.display = x.ps.display
                          /\ ("RDS_PS" \in y.valid_values)
                               <=> ("RDS_PS" \in x.valid_values)
      ELSE /\ rds.ps = last.pre.ps
           /\ ("RDS_PS" \in rds.valid_values)
                <=> ("RDS_PS" \in last.pre.valid_values)

\* a complete PS was showing, a byte pair seen once before arrived again:
\* the text is in transition and the display kept the old text
C13_Witness ==
  /\ LastGroup0
  /\ dec.advanced_ps_decoding
  /\ last.blocks.d.errors = 0
  /\ PsComplete(last.pre)
  /\ ~PsComplete(rds)
  /\ rds.ps.pvt.hi_prob[0] = 88
  /\ rds.ps.display = last.pre.ps.display
  /\ rds.ps.display[0] = 82
  /\ "RDS_PS" \in rds.valid_values


\* C14: a station repeating one PS in error-free 0A groups to an advanced
\* decoder that starts from reset: RDS_PS is not set while some position
\* was received less than twice (fewer than eight groups); from the eighth
\* group on, through twenty repetitions, RDS_PS is set and ps.display is
\* the station's PS.
C14_PsConvergence ==
  IF steps < 8
    THEN "RDS_PS" \notin rds.valid_values
    ELSE /\ "RDS_PS" \in rds.valid_values
         /\ \A ps \in PSOnAir :
              rds.ps.display = [i \in 0..7 |-> ps[i + 1]]

\* the twentieth repetition of a text that ends in zero bytes is showing
C14_Witness ==
  /\ steps = 4 * PSRepetitions
  /\ LastGroup0
  /\ PSOnAir = {<<74, 97, 122, 122, 0, 0, 0, 0>>}
  /\ "RDS_PS" \in rds.valid_values
  /\ rds.ps.display[0] = 74 /\ rds.ps.display[7] = 0


\* the record after the last group is decoded once more
DecodedAgain == rds_decoder_decode(dec, rds, last.blocks).rds

AfEntryFreqs(t) == { t.entry[i].freq : i \in 0..(t.count - 1) }

\* C16: after the three 0A groups with block C (226, 1), (1, 5), (3, 1)
\* from reset there is one AF table, its tuned_freq is 876 in the UHF band,
\* and its entries are 880 and 878, each flagged SAME_PROGRAM or
\* REGIONAL_VARIANT.
C16_AfMethodBExample ==
  steps = Len(AFExample) =>
    /\ rds.af.count = 1
    /\ rds.af.table[0].table.tuned_freq.freq = 876
    /\ rds.af.table[0].table.tuned_freq.band = AF_BAND_UHF
    /\ AfEntryFreqs(rds.af.table[0].table) = {880, 878}
    /\ \A i \in 0..(rds.af.table[0].table.count - 1) :
         rds.af.table[0].table.entry[i].attrib
           \in {AF_ATTRIB_SAME_PROG, AF_ATTRIB_REG_VARIANT}


\* C17: an accepted group 0A or 0B whose block D is over its threshold
\* loses only the two PS bytes of D: the PS is as before, while TA and MS
\* are those of block B and are marked valid.
C17_BlockDOverThreshold ==
  (LastGroup0 /\ last.blocks.d.errors > 2) =>
    /\ rds.ps = last.pre.ps
    /\ rds.ta_code = ((last.blocks.b.val \div 16) % 2 = 1)
    /\ rds.music = ((last.blocks.b.val \div 8) % 2 = 1)
    /\ {"RDS_TA_CODE", "RDS_MS"} \subseteq rds.valid_values


\* the last entry point decoded a group 4A
Last4A == LastDecode /\ last.blocks.b.val \div 2048 = 8

\* blocks B, C and D of the last group are within their thresholds and
\* their error classes add up to at most 1
ClockBlocksGood ==
  /\ last.blocks.b.errors <= 1
  /\ last.blocks.c.errors <= 2
  /\ last.blocks.d.errors <= 2
  /\ last.blocks.b.errors + last.blocks.c.errors + last.blocks.d.errors <= 1

\* the clock carried by the last group
ClockOnAir ==
  LET b == last.blocks.b.val
      c == last.blocks.c.val
      d == last.blocks.d.val
  IN [day_high |-> (b % 4) >= 2,
      day_low |-> (b % 2) * 32768 + c \div 2,
      hour |-> (c % 2) * 16 + d \div 4096,
      minute |-> (d \div 64) % 64,
      utc_offset |-> IF (d \div 32) % 2 = 1 THEN 0 - (d % 32) ELSE d % 32]

\* C18: a group 4A stores its clock and sets RDS_CLOCK when blocks B, C and
\* D are each within their thresholds and their error classes add up to at
\* most 1; in every other case the clock fields and the RDS_CLOCK bit are
\* unchanged.
C18_ClockErrorBudget ==
  Last4A =>
    IF ClockBlocksGood
      THEN /\ rds.clock = ClockOnAir
           /\ "RDS_CLOCK" \in rds.valid_values
      ELSE /\ rds.clock = last.pre.clock
           /\ ("RDS_CLOCK" \in rds.valid_values)
                <=> ("RDS_CLOCK" \in last.pre.valid_values)

\* blocks C and D each had class 1: each is within its threshold, the sum
\* is not, and the record kept the clock it held
C18_Witness ==
  /\ Last4A
  /\ last.blocks.b.errors = 0
  /\ last.blocks.c.errors = 1
  /\ last.blocks.d.errors = 1
  /\ "RDS_CLOCK" \in rds.valid_values
  /\ rds.clock = last.pre.clock
  /\ rds.clock # ClockOnAir


\* the last entry point decoded a group 2A or 2B that passed the tests of
\* its handler: block B, block D and, in 2A, block C within the thresholds
LastRtAccepted ==
  /\ LastAccepted
  /\ last.blocks.b.val \div 4096 = 2
  /\ last.blocks.d.errors <= 2
  /\ (last.blocks.b.val \div 2048) % 2 = 0 => last.blocks.c.errors <= 2

\* the characters of the last group 2A or 2B, in the order they are stored
LastRtChars ==
  LET c == last.blocks.c.val
      d == last.blocks.d.val
  IN IF (last.blocks.b.val \div 2048) % 2 = 0
       THEN <<c \div 256, c % 256, d \div 256, d % 256>>
       ELSE <<d \div 256, d % 256>>

\* the position of the first character of the last group 2A or 2B
LastRtAddr == (last.blocks.b.val % 16) * Len(LastRtChars)

\* the display buffer the last group 2A or 2B is for
LastRtDisplay ==
  IF (last.blocks.b.val \div 16) % 2 = 1 THEN rds.rt.a.display
  ELSE rds.rt.b.display

\* the positions of the target display buffer at which the last group 2A
\* or 2B stored 0x0D: that of its first character 0x0D and, for 2B, the
\* position 32 where the handler puts 0x0D before the characters
LastRtWritesOfCr ==
  { LastRtAddr + i - 1 : i \in { h \in 1..Len(LastRtChars) :
      LastRtChars[h] = 13 /\ \A g \in 1..(h - 1) : LastRtChars[g] # 13 } }
  \cup (IF Len(LastRtChars) = 2 THEN {32} ELSE {})

\* C19 as stated: wherever an accepted group 2A or 2B stored 0x0D in the
\* target display buffer, that position holds 0x0D after the decode and all
\* later positions are zero.
C19_Original ==
  LastRtAccepted =>
    \A k \in LastRtWritesOfCr :
      /\ LastRtDisplay[k] = 13
      /\ \A j \in (k + 1)..63 : LastRtDisplay[j] = 0

\* C19: when an accepted group 2A or 2B carries the character 0x0D, with k
\* the position of the first one, then after the decode position k of the
\* target display buffer holds 0x0D, the characters of the group before it
\* are at their positions, positions k+1..63 are zero and the characters of
\* the group after it are not stored.  The 0x0D that a group 2B puts at
\* position 32 before its characters zeroes nothing: after a group 2B
\* without the character 0x0D position 32 holds 0x0D and positions 33..63
\* are as they were.
C19_RtEndOfMessage ==
  LastRtAccepted =>
    /\ \A i \in 1..Len(LastRtChars) :
         (LastRtChars[i] = 13 /\ \A h \in 1..(i - 1) : LastRtChars[h] # 13) =>
           /\ LastRtDisplay[LastRtAddr + i - 1] = 13
           /\ \A h \in 1..(i - 1) :
                LastRtDisplay[LastRtAddr + h - 1] = LastRtChars[h]
           /\ \A j \in (LastRtAddr + i)..63 : LastRtDisplay[j] = 0
    /\ (Len(LastRtChars) = 2 /\ \A i \in 1..2 : LastRtChars[i] # 13) =>
         /\ LastRtDisplay[32] = 13
         /\ \A j \in 33..63 :
              LastRtDisplay[j] =
                IF (last.blocks.b.val \div 16) % 2 = 1
                  THEN last.pre.rt.a.display[j]
                  ELSE last.pre.rt.b.display[j]

\* a 2A group that starts with 0x0D arrived for a buffer written up to
\* position 63: the text ends at position 8 and the rest is zero
C19_Witness ==
  /\ LastRtAccepted
  /\ LastRtChars = <<13, 72, 72, 69>>
  /\ last.pre.rt.a.display[63] = 84
  /\ last.pre.rt.a.display[32] = 77
  /\ rds.rt.a.display[8] = 13
  /\ rds.rt.a.display[9] = 0
  /\ rds.rt.a.display[32] = 0
  /\ rds.rt.a.display[63] = 0
  /\ rds.rt.a.display[7] = 32


\* the last entry point decoded an accepted group 10A
Last10A == LastAccepted /\ last.blocks.b.val \div 2048 = 20

\* the A/B flag of the last group 10A
LastPtynFlag == (last.blocks.b.val \div 16) % 2 = 1

\* the characters the last group 10A stores, by position: two of block C
\* and two of block D, each pair if its block is within the threshold
LastPtynChars ==
  LET base == IF last.blocks.b.val % 2 = 1 THEN 4 ELSE 0
      c == last.blocks.c.val
      d == last.blocks.d.val
      fromC == IF last.blocks.c.errors <= 2
                 THEN (base :> (c \div 256)) @@ ((base + 1) :> (c % 256))
                 ELSE <<>>
      fromD == IF last.blocks.d.errors <= 2
                 THEN ((base + 2) :> (d \div 256)) @@ ((base + 3) :> (d % 256))
                 ELSE <<>>
  IN fromC @@ fromD

\* C20: an accepted group 10A whose A/B flag differs from ptyn.last_ab
\* leaves ptyn.display zero at every position it did not write, its
\* characters at the positions it wrote, and last_ab equal to its flag; a
\* group 10A with the flag unchanged modifies only the positions it wrote.
C20_PtynFlagChange ==
  Last10A =>
    /\ rds.ptyn.last_ab = LastPtynFlag
    /\ \A i \in 0..7 :
         rds.ptyn.display[i] =
           IF i \in DOMAIN LastPtynChars THEN LastPtynChars[i]
           ELSE IF last.pre.ptyn.last_ab # LastPtynFlag THEN 0
           ELSE last.pre.ptyn.display[i]

\* a whole name was showing, the flag changed and block C was over its
\* threshold: only the two characters of block D are left
C20_Witness ==
  /\ Last10A
  /\ last.pre.ptyn.last_ab # LastPtynFlag
  /\ \A i \in 0..7 : last.pre.ptyn.display[i] # 0
  /\ last.blocks.c.errors = 3
  /\ DOMAIN LastPtynChars = {6, 7}
  /\ rds.ptyn.display = [i \in 0..7 |-> IF i < 6 THEN 0 ELSE 108]


\* no table of the AF group g holds anything
AfGroupEmpty(g) ==
  /\ g.count = 0
  /\ \A i \in 0..(AF_GROUP_TABLES - 1) :
       g.table[i].table.count = 0 /\ g.table[i].table.tuned_freq.freq = 0

\* C21: RDS_AF is set only once AF data has been populated: after a 0A
\* group whose AF bytes were discarded, with no AF table holding any data,
\* RDS_AF is not set.
C21_AfValidNeedsData ==
  (LastAFGroup /\ AfGroupEmpty(rds.af)) => "RDS_AF" \notin rds.valid_values


\* the last entry point decoded an accepted 0A whose clean block C is a
\* start block (first byte a count code) or a continuation pair
LastStartBlock == LastAFGroup /\ LastFirstByte \in 225..249

LastNthPair == LastAFGroup /\ LastFirstByte \notin 225..249

\* the table a continuation pair goes to, before and after the last group
\* (only where the current table index before the group is not negative)
NthTablePre == last.pre.af.table[last.pre.af.pvt.current_table_idx]

NthTablePost == rds.af.table[last.pre.af.pvt.current_table_idx]

\* a continuation pair reached a table that expects more bytes
LastNthProcessed ==
  /\ LastNthPair
  /\ last.pre.af.pvt.current_table_idx >= 0
  /\ NthTablePre.pvt.expected_cnt > 0

\* code is not a frequency: filler, LF/MF marker, count code or unassigned
AfSpecial(code) == code \notin 1..204

\* the frequency a code stands for: band 0 is UHF, band 1 is LF/MF
AfFreqOf(code, band) ==
  [band |-> band,
   freq |-> IF band = 0 THEN 875 + code
            ELSE IF code < 16 THEN 153 + 9 * (code - 1)
            ELSE 531 + 9 * (code - 16)]

\* the entries of the AF table t that are in use, without their attribute
AfEntriesOf(t) ==
  { [band |-> t.entry[i].band, freq |-> t.entry[i].freq] :
      i \in 0..(t.count - 1) }

\* C22: a continuation pair processed while the table's method is UNKNOWN
\* and it expects more bytes: two special codes leave the method UNKNOWN
\* and add no entry; exactly one special code makes the method A; two
\* frequencies make it B when one of them is the table's tuned_freq, and
\* otherwise A, with the saved tuned_freq among the entries and cleared.
C22_MethodSettled ==
  (LastNthProcessed /\ NthTablePre.enc_method = 0) =>
    LET f1 == AfFreqOf(LastFirstByte, NthTablePre.pvt.band)
        f2 == AfFreqOf(LastSecondByte, NthTablePre.pvt.band)
        tuned == [band |-> NthTablePre.table.tuned_freq.band,
                  freq |-> NthTablePre.table.tuned_freq.freq]
    IN IF AfSpecial(LastFirstByte) /\ AfSpecial(LastSecondByte)
         THEN /\ NthTablePost.enc_method = 0
              /\ NthTablePost.table = NthTablePre.table
       ELSE IF AfSpecial(LastFirstByte) \/ AfSpecial(LastSecondByte)
         THEN NthTablePost.enc_method = 1
       ELSE IF f1 = tuned \/ f2 = tuned
         THEN /\ NthTablePost.enc_method = 2
              /\ NthTablePost.table.tuned_freq = NthTablePre.table.tuned_freq
       ELSE /\ NthTablePost.enc_method = 1
            /\ tuned.freq # 0 => tuned \in AfEntriesOf(NthTablePost.table)
            /\ NthTablePost.table.tuned_freq = ZeroFreq

\* two frequencies, neither the tuned one, reached a table that had saved
\* its tuned frequency: method A, three entries, tuned_freq cleared
C22_Witness ==
  /\ LastNthProcessed
  /\ NthTablePre.enc_method = 0
  /\ NthTablePre.table.tuned_freq.freq = 915
  /\ LastFirstByte = 41 /\ LastSecondByte = 42
  /\ NthTablePost.enc_method = 1
  /\ NthTablePost.table.tuned_freq.freq = 0
  /\ AfEntryFreqs(NthTablePost.table) = {915, 916, 917}


\* a continuation pair of two frequencies, exactly one of them the tuned
\* frequency, reached a method B table (settled before or by this pair)
\* that expects more bytes, and the other frequency was appended
LastAnchoredPairAppended ==
  /\ LastNthProcessed
  /\ NthTablePost.enc_method = 2
  /\ ~AfSpecial(LastFirstByte) /\ ~AfSpecial(LastSecondByte)
  /\ LastFirstByte # LastSecondByte
  /\ NthTablePre.table.tuned_freq.freq
       \in {875 + LastFirstByte, 875 + LastSecondByte}
  /\ NthTablePre.pvt.band = 0
  /\ NthTablePost.table.count = NthTablePre.table.count + 1

\* C23: in method B the frequency appended by a pair of two frequencies,
\* one of them the tuned frequency, is a REGIONAL_VARIANT exactly if the
\* tuned frequency is the lower of the two, and SAME_PROGRAM otherwise,
\* whichever of the two bytes carries the tuned frequency.
C23_AnchorRule ==
  LastAnchoredPairAppended =>
    LET tuned == NthTablePre.table.tuned_freq.freq
        added == NthTablePost.table.entry[NthTablePre.table.count]
    IN /\ added.freq \in {875 + LastFirstByte, 875 + LastSecondByte}
       /\ added.freq # tuned
       /\ added.attrib = IF tuned < added.freq THEN 1 ELSE 0


\* x lowered by n, not below zero
LessSaturating(x, n) == IF x > n THEN x - n ELSE 0

\* C24: expected-remaining goes down by one, not below zero, for each byte
\* a block consumes and by nothing else: a start block leaves the declared
\* count less one, a processed continuation pair lowers it by two in method
\* A and in method B alike, filler appends no entry, and a group that
\* consumes no AF byte leaves it alone.
C24_ExpectedRemaining ==
  /\ LastNthProcessed =>
       /\ NthTablePost.pvt.expected_cnt =
            LessSaturating(NthTablePre.pvt.expected_cnt, 2)
       /\ (LastFirstByte = 205 /\ LastSecondByte = 205) =>
            NthTablePost.table = NthTablePre.table
  /\ (LastStartBlock /\ rds.af.pvt.current_table_idx >= 0) =>
       rds.af.table[rds.af.pvt.current_table_idx].pvt.expected_cnt
         = LastFirstByte - 224 - 1
  /\ (LastDecode /\ ~LastAFGroup) =>
       \A i \in 0..(AF_GROUP_TABLES - 1) :
         rds.af.table[i].pvt.expected_cnt
           = last.pre.af.table[i].pvt.expected_cnt


\* a continuation pair arrived with no open start: no table is current, or
\* the current table expects nothing more
LastNthNoOpenStart ==
  /\ LastNthPair
  /\ \/ last.pre.af.pvt.current_table_idx < 0
     \/ NthTablePre.pvt.expected_cnt = 0

\* a continuation pair in which neither byte is the tuned frequency reached
\* a method B table that expects more bytes
LastNthNoAnchor ==
  /\ LastNthProcessed
  /\ NthTablePre.enc_method = 2
  /\ \A code \in {LastFirstByte, LastSecondByte} :
       AfSpecial(code) \/ NthTablePre.pvt.band # 0
         \/ 875 + code # NthTablePre.table.tuned_freq.freq

\* C25 as stated: a method B pair without the tuned frequency, with or
\* without a special code, and a continuation pair with no open start leave
\* every AF table as it was: entries, count, tuned_freq, method, band and
\* expected-remaining.
C25_Original ==
  (LastNthNoOpenStart \/ LastNthNoAnchor) =>
    /\ rds.af.table = last.pre.af.table
    /\ rds.af.count = last.pre.af.count

\* the special codes among the two bytes of the last group
LastSpecialBytes ==
  (IF AfSpecial(LastFirstByte) THEN 1 ELSE 0)
    + (IF AfSpecial(LastSecondByte) THEN 1 ELSE 0)

\* C25: a continuation pair with no open start, and a method B pair of two
\* frequencies neither of which is the tuned one, leave every AF table as
\* it was; a method B pair without the tuned frequency that holds a special
\* code leaves entries, count, tuned_freq and method of every table as they
\* were, but each special code lowers expected-remaining of the current
\* table by one and code 250 turns its band to LF/MF.
C25_ProtocolViolations ==
  /\ (LastNthNoOpenStart \/ (LastNthNoAnchor /\ LastSpecialBytes = 0)) =>
       /\ rds.af.table = last.pre.af.table
       /\ rds.af.count = last.pre.af.count
  /\ (LastNthNoAnchor /\ LastSpecialBytes > 0) =>
       /\ rds.af.count = last.pre.af.count
       /\ rds.af.table =
            [last.pre.af.table EXCEPT
               ![last.pre.af.pvt.current_table_idx].pvt.expected_cnt =
                  LessSaturating(@, LastSpecialBytes),
               ![last.pre.af.pvt.current_table_idx].pvt.band =
                  IF 250 \in {LastFirstByte, LastSecondByte} THEN 1 ELSE @]

\* a pair with filler reached a method B table: nothing was appended and
\* one byte was counted
C25_Witness ==
  /\ LastNthNoAnchor
  /\ LastFirstByte = 205 /\ LastSecondByte = 43
  /\ NthTablePre.pvt.expected_cnt = 3
  /\ NthTablePost.pvt.expected_cnt = 2
  /\ NthTablePost.table = NthTablePre.table
  /\ NthTablePost.table.count = 2


\* the list on air has been delivered to its last block
AFListComplete == \E n \in AFListOnAir : steps = AFListBlocks(n)

\* C26: after one pass of a method A list of n distinct UHF frequencies
\* from reset there is one table, and its entries are exactly the n
\* frequencies of the list, all SAME_PROGRAM.
C26_MethodAList ==
  \A n \in AFListOnAir :
    steps = AFListBlocks(n) =>
      /\ rds.af.count = 1
      /\ rds.af.table[0].table.count = n
      /\ { rds.af.table[0].table.entry[i] : i \in 0..(n - 1) }
           = { [band |-> 0, attrib |-> 0, freq |-> 875 + n + i - 1] :
                 i \in 1..n }


\* C27: a start block that declares one frequency, decoded into an empty
\* AF group, leaves the group with one table, table 0, of method A, that
\* holds the frequency; decoded into a group whose only table is of method
\* A it goes to that table and the table count stays 1.
C27_SingleFrequencyList ==
  (LastStartBlock /\ LastFirstByte = 225 /\ ~AfSpecial(LastSecondByte)) =>
    /\ last.pre.af.count = 0 =>
         /\ rds.af.count = 1
         /\ rds.af.table[0].enc_method = 1
         /\ 875 + LastSecondByte \in AfEntryFreqs(rds.af.table[0].table)
    /\ (last.pre.af.count = 1 /\ last.pre.af.table[0].enc_method = 1) =>
         /\ rds.af.count = 1
         /\ rds.af.pvt.current_table_idx = 0
         /\ 875 + LastSecondByte \in AfEntryFreqs(rds.af.table[0].table)


\* the tables in use before the last group whose tuned_freq is the UHF
\* frequency of the last group's second byte
TablesTunedToLast ==
  { i \in 0..(last.pre.af.count - 1) :
      /\ last.pre.af.table[i].table.tuned_freq.freq = 875 + LastSecondByte
      /\ last.pre.af.table[i].table.tuned_freq.band = 0 }

\* C28: a start block that declares more than one frequency and whose
\* second byte is the tuned_freq of a table in use makes that table the
\* current one and leaves the table count as it is; and whatever lists are
\* delivered again, a table that holds its whole list is not changed, no
\* two tables have the same tuned_freq, and a list delivered to its end is
\* in its table.
C28_TablesByTunedFreq ==
  /\ (LastStartBlock /\ LastFirstByte > 225 /\ TablesTunedToLast # {}) =>
       /\ rds.af.count = last.pre.af.count
       /\ rds.af.pvt.current_table_idx \in TablesTunedToLast
       /\ \A i \in TablesTunedToLast : rds.af.pvt.current_table_idx <= i
  /\ LastAFGroup =>
       \A i \in 0..(last.pre.af.count - 1) :
         last.pre.af.table[i].table.count = 3 =>
           rds.af.table[i].table = last.pre.af.table[i].table
  /\ \A i, j \in 0..(rds.af.count - 1) :
       rds.af.table[i].table.tuned_freq = rds.af.table[j].table.tuned_freq
         => i = j
  /\ (LastAFGroup /\ steps % 3 = 0) =>
       LET t == LastSecondByte
           cur == rds.af.table[rds.af.pvt.current_table_idx].table
       IN /\ cur.tuned_freq.freq = 875 + t
          /\ cur.count = 3
          /\ AfEntryFreqs(cur) = {875 + t, 875 + t + 5, 875 + t - 10}

\* the twelfth block: three lists were delivered, one of them twice, and
\* there are three tables of three entries
C28_Witness ==
  /\ steps = 3 * AFRedeliveries
  /\ LastAFGroup
  /\ rds.af.count = 3
  /\ \A i \in 0..2 : rds.af.table[i].table.count = 3
  /\ last.pre.af.table[rds.af.pvt.current_table_idx].table.count = 3
  /\ rds.af.pvt.current_table_idx = 1


\* C29: with 20 tables in use, a start block that declares more than one
\* frequency for a tuned frequency no table has allocates nothing and
\* changes no table, and neither does a continuation pair that follows it
\* before the next start block.
C29_TableGroupFull ==
  /\ (LastStartBlock /\ LastFirstByte > 225 /\ last.pre.af.count = 20
        /\ TablesTunedToLast = {}) =>
       /\ rds.af.count = 20
       /\ rds.af.table = last.pre.af.table
       /\ rds.af.pvt.current_table_idx = -1
  /\ (LastNthPair /\ last.pre.af.count = 20
        /\ last.pre.af.pvt.current_table_idx = -1) =>
       /\ rds.af.count = 20
       /\ rds.af.table = last.pre.af.table
       /\ rds.af.pvt.current_table_idx = -1

\* 20 tables were in use, a start block for a 21st tuned frequency was
\* refused and the pair after it, which holds the tuned frequency of the
\* refused list, changed nothing
C29_Witness ==
  /\ LastNthPair
  /\ LastFirstByte = 40 /\ LastSecondByte = 45
  /\ last.pre.af.count = 20
  /\ last.pre.af.pvt.current_table_idx = -1
  /\ rds.af.table = last.pre.af.table
  /\ rds.af.table[19].table.tuned_freq.freq = 995
  /\ rds.af.table[19].pvt.expected_cnt = 2


\* the frequencies a processed continuation pair stands for: a byte after
\* code 250 in the pair, or in a table whose band is already LF/MF, is an
\* LF/MF frequency; any other frequency code keeps the band of the table
LastPairFreqs ==
  LET band1 == NthTablePre.pvt.band
      band2 == IF LastFirstByte = 250 THEN 1 ELSE NthTablePre.pvt.band
  IN (IF AfSpecial(LastFirstByte) THEN {}
      ELSE { AfFreqOf(LastFirstByte, band1) })
     \cup
     (IF AfSpecial(LastSecondByte) THEN {}
      ELSE { AfFreqOf(LastSecondByte, band2) })

Last2A == LastAccepted /\ last.blocks.b.val \div 2048 = 4

\* the display buffer the last group 2A or 2B is for, before the group
LastRtDisplayPre ==
  IF (last.blocks.b.val \div 16) % 2 = 1 THEN last.pre.rt.a.display
  ELSE last.pre.rt.b.display

\* character i (1..4) of the last group 2A is carried by a block within
\* its threshold: block C for characters 1 and 2, block D for 3 and 4
Last2ACharGood(i) ==
  IF i <= 2 THEN last.blocks.c.errors <= 2 ELSE last.blocks.d.errors <= 2

\* C31: in a group 2A the characters 0..1 are stored in the target display
\* buffer if and only if block C is within its threshold and the characters
\* 2..3 if and only if block D is: a character of a good block that no
\* stored 0x0D precedes is at its position after the decode, and the
\* position of a character of a bad block that no stored 0x0D precedes
\* holds what it held.
C31_CharGating ==
  Last2A =>
    \A i \in 1..4 :
      (\A h \in 1..(i - 1) : ~(Last2ACharGood(h) /\ LastRtChars[h] = 13)) =>
        LastRtDisplay[LastRtAddr + i - 1] =
          (IF Last2ACharGood(i) THEN LastRtChars[i]
           ELSE LastRtDisplayPre[LastRtAddr + i - 1])


\* the last entry point decoded a group 2B with blocks B and D within
\* their thresholds
Last2B == LastRtAccepted /\ last.blocks.b.val \div 2048 = 5

\* C32 as stated: after every accepted group 2B position 32 of the target
\* display buffer holds 0x0D, whatever the group carried.
C32_Original == Last2B => LastRtDisplay[32] = 13

\* C32: after an accepted group 2B, position 32 of the target display
\* buffer holds 0x0D when neither character of the group is 0x0D, whatever
\* the segment address and whatever the position held; when a character of
\* the group is 0x0D, position 32 holds 0.
C32_Tombstone ==
  Last2B =>
    LastRtDisplay[32] =
      (IF \E i \in 1..2 : LastRtChars[i] = 13 THEN 0 ELSE 13)

\* a group 2B "HE" for segment 15 arrived for a buffer that held 'M' at
\* position 32: the position holds 0x0D and the text after it is still there
C32_Witness ==
  /\ Last2B
  /\ LastRtChars = <<72, 69>>
  /\ LastRtAddr = 30
  /\ LastRtDisplayPre[32] = 77
  /\ LastRtDisplay[32] = 13
  /\ LastRtDisplay[33] = 79
  /\ LastRtDisplay[30] = 72


(***************************************************************************)
(* Repeated and changing texts: the confidence state of the advanced       *)
(* Radiotext and Program Service updates.  From a reset record, Radiotext  *)
(* "HELO" and "WXYZ" for segment 0 with either A/B flag, as 2A and 2B, and *)
(* two Program Service segments 0, in both Program Service modes.          *)
(***************************************************************************)
MaxStepsConfidence == 4

ConfidenceGroups ==
  { RTGroup(0, 1, 0, 72 * 256 + 69, 76 * 256 + 79, 0, 0),
    RTGroup(0, 1, 0, 87 * 256 + 88, 89 * 256 + 90, 0, 0),
    RTGroup(0, 0, 0, 72 * 256 + 69, 76 * 256 + 79, 0, 0),
    RTGroup(1, 1, 0, WarmPI, 72 * 256 + 69, 0, 0),
    PSGroup(0, 0, 82, 65, 0),
    PSGroup(0, 0, 88, 89, 0) }

InitConfidence ==
  \E d \in PSDecoders : Setup({d}, {rds_decoder_reset(d, WarmRds(d)).rds})

DecodeConfidence ==
  steps < MaxStepsConfidence /\ \E g \in ConfidenceGroups : DoDecode(g)

NextConfidence == DecodeConfidence

SpecConfidence == InitConfidence /\ [][NextConfidence]_vars

\* the buffer of the last group 2A or 2B, before and after the group
LastRtPre ==
  IF (last.blocks.b.val \div 16) % 2 = 1 THEN last.pre.rt.a
  ELSE last.pre.rt.b

LastRtPost ==
  IF (last.blocks.b.val \div 16) % 2 = 1 THEN rds.rt.a ELSE rds.rt.b

\* the A/B flag of the last group 2A or 2B differs from the one recorded
\* by the accepted group 2 before it
LastRtFlagChanged ==
  last.pre.rt.decode_rt #
    (IF (last.blocks.b.val \div 16) % 2 = 1 THEN RT_A ELSE RT_B)

\* the positions the characters of the last group 2A or 2B are for
LastRtAddressed == LastRtAddr..(LastRtAddr + Len(LastRtChars) - 1)

\* C33: after an accepted group 2 whose A/B flag differs from the recorded
\* one, hi_prob_cnt of the target buffer is 1 at the positions addressed by
\* the group and 0 at all others, and hi_prob and lo_prob are zero at all
\* others; after one whose flag is unchanged, hi_prob and lo_prob outside
\* the addressed positions are as before and no hi_prob_cnt outside them
\* went to zero (position 32 of a 2B holds 0x0D with a positive count).
C33_FlagChangeClears ==
  LastRtAccepted =>
    /\ LastRtFlagChanged =>
         \A j \in 0..63 :
           /\ LastRtPost.pvt.hi_prob_cnt[j] =
                (IF j \in LastRtAddressed THEN 1 ELSE 0)
           /\ j \notin LastRtAddressed =>
                /\ LastRtPost.pvt.hi_prob[j] = 0
                /\ LastRtPost.pvt.lo_prob[j] = 0
    /\ ~LastRtFlagChanged =>
         \A j \in (0..63) \ LastRtAddressed :
           IF j = 32 /\ Len(LastRtChars) = 2
             THEN /\ LastRtPost.pvt.hi_prob[j] = 13
                  /\ LastRtPost.pvt.lo_prob[j] = 13
                  /\ LastRtPost.pvt.hi_prob_cnt[j] > 0
             ELSE /\ LastRtPost.pvt.hi_prob[j] = LastRtPre.pvt.hi_prob[j]
                  /\ LastRtPost.pvt.lo_prob[j] = LastRtPre.pvt.lo_prob[j]
                  /\ LastRtPre.pvt.hi_prob_cnt[j] > 0 =>
                       LastRtPost.pvt.hi_prob_cnt[j] > 0

\* buffer A held four counted characters, a group with flag B was accepted,
\* and then a group 2B with flag A arrived: of buffer A only the two
\* addressed positions are counted, position 32 included in the clearing
C33_Witness ==
  /\ Last2B
  /\ LastRtFlagChanged
  /\ (last.blocks.b.val \div 16) % 2 = 1
  /\ last.pre.rt.a.pvt.hi_prob_cnt[2] > 0
  /\ last.pre.rt.a.pvt.hi_prob[2] = 76
  /\ rds.rt.a.pvt.hi_prob_cnt[0] = 1
  /\ rds.rt.a.pvt.hi_prob_cnt[1] = 1
  /\ rds.rt.a.pvt.hi_prob_cnt[2] = 0
  /\ rds.rt.a.pvt.hi_prob[2] = 0
  /\ rds.rt.a.pvt.hi_prob_cnt[32] = 0


\* C37: after every decode call every hi_prob_cnt of the Program Service
\* name and of both Radiotext buffers is in 0..2, in either Program Service
\* mode.
C37_CountsBounded ==
  /\ \A j \in 0..7 : rds.ps.pvt.hi_prob_cnt[j] \in 0..2
  /\ \A j \in 0..63 :
       /\ rds.rt.a.pvt.hi_prob_cnt[j] \in 0..2
       /\ rds.rt.b.pvt.hi_prob_cnt[j] \in 0..2

\* "HELO" was counted twice, "WXYZ" was received once and now again: the
\* characters swap into hi_prob with the count VALIDATE_LIMIT + 1 and the
\* call leaves the count at 2
C37_Witness ==
  /\ Last2A
  /\ LastRtChars = <<87, 88, 89, 90>>
  /\ \A j \in 0..3 :
       /\ last.pre.rt.a.pvt.hi_prob_cnt[j] = 2
       /\ last.pre.rt.a.pvt.lo_prob[j] = LastRtChars[j + 1]
       /\ last.pre.rt.a.pvt.hi_prob[j] # LastRtChars[j + 1]
       /\ rds.rt.a.pvt.hi_prob[j] = LastRtChars[j + 1]
       /\ rds.rt.a.pvt.hi_prob_cnt[j] = 2


(***************************************************************************)
(* Re-announcements.  Three applications are registered (1001 for 11A,     *)
(* 1002 for 11B, 1003 for 12A) and the first and third have received a     *)
(* group.  Then 3A groups announce 1001 or 1003 for 11A, 12A or 13A, or    *)
(* 1001 for 2A, and groups 11A, 12A, 13A and 2A arrive.                    *)
(***************************************************************************)
MaxStepsReannounce == 3

\* a clean group of the type in bits 4..0 of block B of a 3A
ReannounceTraffic(low5) ==
  Clean(WarmPI, BVal(low5 \div 2, low5 % 2, 1, 5, 3), 4660, 22136)

ReannounceRds(decoder) ==
  DecodeAll(decoder, ZeroRds,
            [i \in 1..3 |-> ODAGroup3A(1000 + i, ODATargets[i], 0)]
              \o << ReannounceTraffic(22), ReannounceTraffic(24) >>, 1)

Reannouncements ==
  { ODAGroup3A(aid, low5, 0) : aid \in {1001, 1003}, low5 \in {22, 24, 26} }
  \cup { ODAGroup3A(1001, 4, 0) }

ReannounceGroups == { ReannounceTraffic(low5) : low5 \in {22, 24, 26, 4} }

InitReannounce ==
  \E d \in ODADecoders : Setup({d}, {ReannounceRds(d)})

Reannounce ==
  steps < MaxStepsReannounce /\ \E g \in Reannouncements : DoDecode(g)

DecodeReannounced ==
  steps < MaxStepsReannounce /\ \E g \in ReannounceGroups : DoDecode(g)

NextReannounce == Reannounce \/ DecodeReannounced

SpecReannounce == InitReannounce /\ [][NextReannounce]_vars

\* the group type entry i (0..2) was first announced for
FirstBound(i) ==
  [code |-> ODATargets[i + 1] \div 2,
   version |-> IF ODATargets[i + 1] % 2 = 1 THEN "B" ELSE "A"]

\* the entries that a re-announcement has bound to another group type
Rebound == {i \in 0..2 : last.pre.oda[i].gt # FirstBound(i)}

\* the last group was not delivered to entry i
NotDeliveredTo(i) ==
  /\ rds.oda[i].pkt_count = last.pre.oda[i].pkt_count
  /\ \A c \in 1..Len(calls) : calls[c].app_id # last.pre.oda[i].id

\* a 3A with a clean block D announced an AID that is registered: only the
\* group type of its entry changes
ReannouncementChangesGtOnly ==
  (Last3A /\ last.blocks.d.errors = 0 /\ Registered(last.pre)) =>
    /\ rds.oda_cnt = last.pre.oda_cnt
    /\ \A i \in 0..9 :
         /\ rds.oda[i].id = last.pre.oda[i].id
         /\ rds.oda[i].pkt_count = last.pre.oda[i].pkt_count
         /\ rds.oda[i].gt =
              (IF i < last.pre.oda_cnt /\ last.pre.oda[i].id = last.blocks.d.val
                 THEN [code |-> (last.blocks.b.val \div 2) % 16,
                       version |-> IF last.blocks.b.val % 2 = 1
                                     THEN "B" ELSE "A"]
                 ELSE last.pre.oda[i].gt)
    /\ calls = <<>>

\* a group of the type entry i was first bound to is not delivered to the
\* re-bound entry i, and to nobody when no entry is bound to that type
OldTypeNotDelivered ==
  (LastAccepted /\ ~Last3A) =>
    \A i \in Rebound :
      LastGt = FirstBound(i) =>
        /\ NotDeliveredTo(i)
        /\ BoundToLastGt = {} =>
             /\ calls = <<>>
             /\ \A j \in 0..9 :
                  rds.oda[j].pkt_count = last.pre.oda[j].pkt_count

\* C34 as stated: a re-announcement changes only the group type of the
\* entry; afterwards groups of the old type are not delivered for that AID
\* and groups of the new type are.
C34_Original ==
  /\ ReannouncementChangesGtOnly
  /\ OldTypeNotDelivered
  /\ (LastAccepted /\ ~Last3A) =>
       \A i \in Rebound : LastGt = last.pre.oda[i].gt => DeliveredTo(i)

\* C34: a re-announcement changes only the group type of the entry:
\* oda_cnt, every id and every packet counter are unchanged.  Afterwards a
\* group of the old type is not delivered for that AID (nor to anybody when
\* no entry is bound to the type), and a group of the new type is delivered
\* for that AID when the type is one the decoder routes to ODA and no entry
\* of lower index is bound to it, and is not delivered for it otherwise.
C34_Reannouncement ==
  /\ ReannouncementChangesGtOnly
  /\ OldTypeNotDelivered
  /\ (LastAccepted /\ ~Last3A) =>
       \A i \in Rebound :
         LastGt = last.pre.oda[i].gt =>
           IF LastRoutedToODA /\ \A j \in BoundToLastGt : i <= j
             THEN DeliveredTo(i)
             ELSE NotDeliveredTo(i)

\* application 1001 was moved from 11A to 13A with its packet count of 1
\* kept, and the 13A group that follows is delivered to it
C34_Witness ==
  /\ LastAccepted
  /\ LastGt = [code |-> 13, version |-> "A"]
  /\ 0 \in Rebound
  /\ last.pre.oda[0].id = 1001
  /\ last.pre.oda[0].gt = LastGt
  /\ last.pre.oda[0].pkt_count = 1
  /\ rds.oda[0].pkt_count = 2
  /\ rds.oda_cnt = 3
  /\ DeliveredTo(0)


(***************************************************************************)
(* Transparent data channels.  Groups 5A for the channel numbers 0, 1, 3,  *)
(* 16 and 31 and groups 5B, from a zeroed record, after the warm-up, with  *)
(* nine applications registered (one of them for 5A), and from a record    *)
(* that the host allocated and did not zero before the first reset:        *)
(* rds_decoder_create stores the pointer and does not touch the record.    *)
(***************************************************************************)
MaxStepsTDC == 2

TDCGroups ==
  { Clean(WarmPI, BVal(5, 0, 1, 5, ch), 4660, 22136) : ch \in {0, 1, 3, 16, 31} }
  \cup { Clean(WarmPI, BVal(5, 1, 1, 5, ch), WarmPI, 39612) : ch \in {0, 5} }

\* curr_channel of a record the host did not zero
TDCHostChannels == {32, 255}

TDCRecords(decoder) ==
  { ZeroRds, WarmRds(decoder), ODARegistry(decoder, 9) }
  \cup { [ZeroRds EXCEPT !.tdc.curr_channel = ch] : ch \in TDCHostChannels }

InitTDC == Setup({AFDecoder}, TDCRecords(AFDecoder))

DecodeTDC == steps < MaxStepsTDC /\ \E g \in TDCGroups : DoDecode(g)

NextTDC == DecodeTDC

SpecTDC == InitTDC /\ [][NextTDC]_vars

\* the last entry point decoded an accepted group 5A or 5B whose type no
\* ODA entry is bound to
Last5 ==
  /\ LastAccepted
  /\ LastGt.code = 5
  /\ ~IsGroupTypeUsedByODA(last.pre, LastGt)

\* a channel buffer after the bytes of the sequence new were shifted in
TdcShifted(old, new) ==
  [i \in 0..31 |->
     IF i + Len(new) <= 31 THEN old[i + Len(new)]
     ELSE new[i + Len(new) - 31]]

\* the bytes of blocks C and D of the last group, high byte first
LastCBytes == << last.blocks.c.val \div 256, last.blocks.c.val % 256 >>

LastDBytes == << last.blocks.d.val \div 256, last.blocks.d.val % 256 >>

\* C35: after an accepted group 5A that is not ODA-owned curr_channel is
\* the low five bits of block B and that channel's buffer is its previous
\* content shifted left by four bytes with the bytes of C and D at 28..31;
\* a group 5B leaves curr_channel unchanged and shifts the two bytes of D
\* into the current channel.
C35_TdcChannel ==
  Last5 =>
    IF LastGt.version = "A"
      THEN LET ch == last.blocks.b.val % 32
           IN /\ rds.tdc.curr_channel = ch
              /\ rds.tdc.data[ch] =
                   TdcShifted(last.pre.tdc.data[ch], LastCBytes \o LastDBytes)
      ELSE /\ rds.tdc.curr_channel = last.pre.tdc.curr_channel
           /\ last.pre.tdc.curr_channel < 32 =>
                rds.tdc.data[last.pre.tdc.curr_channel] =
                  TdcShifted(last.pre.tdc.data[last.pre.tdc.curr_channel],
                             LastDBytes)


\* C40: a group 5A or 5B that is not ODA-owned changes no TDC buffer other
\* than that of curr_channel, which is then below 32; when curr_channel is
\* 32 or more at the time the blocks are stored, no TDC byte changes and
\* RDS_TDC is not set.  A 5A sets curr_channel below 32 first, whatever
\* block B is.
C40_TdcGuard ==
  Last5 =>
    LET ch == rds.tdc.curr_channel
    IN /\ LastGt.version = "A" => ch < 32
       /\ LastGt.version = "B" => ch = last.pre.tdc.curr_channel
       /\ ch >= 32 =>
            /\ rds.tdc.data = last.pre.tdc.data
            /\ "RDS_TDC" \in rds.valid_values =>
                 "RDS_TDC" \in last.pre.valid_values
       /\ ch < 32 =>
            /\ "RDS_TDC" \in rds.valid_values
            /\ \A c \in (0..31) \ {ch} :
                 rds.tdc.data[c] = last.pre.tdc.data[c]

\* a group 5B arrived while curr_channel was 255: nothing was stored
C40_Witness ==
  /\ Last5
  /\ LastGt.version = "B"
  /\ last.pre.tdc.curr_channel = 255
  /\ last.blocks.d.val = 39612
  /\ rds.tdc = last.pre.tdc
  /\ "RDS_TDC" \notin rds.valid_values


(***************************************************************************)
(* AF tables whose method is settled.  The record holds a method B table   *)
(* tuned to code 40, a method A table and a method A list of the other     *)
(* network, or a single method A table; start blocks that match, miss or   *)
(* declare one frequency, continuation pairs, 14A AF blocks and resets     *)
(* follow.                                                                 *)
(***************************************************************************)
MaxStepsAFMethod == 2

AFMethodHistories ==
  { << AFGroup(AFPair(229, 40)), AFGroup(AFPair(40, 45)),
       AFGroup(AFPair(227, 60)), AFGroup(AFPair(61, 62)),
       EONAFGroup(AFPair(226, 40)), EONAFGroup(AFPair(41, 42)) >>,
    << AFGroup(AFPair(227, 60)), AFGroup(AFPair(61, 62)) >>,
    << AFGroup(AFPair(229, 40)), AFGroup(AFPair(40, 45)) >> }

AFMethodRecords(decoder) ==
  { DecodeAll(decoder, rds_decoder_reset(decoder, ZeroRds).rds, h, 1) :
      h \in AFMethodHistories }

AFMethodGroups ==
  { AFGroup(c) : c \in { AFPair(229, 40), AFPair(227, 60), AFPair(227, 70),
                         AFPair(225, 50), AFPair(40, 45), AFPair(45, 40),
                         AFPair(41, 42), AFPair(250, 3), AFPair(205, 205) } }
  \cup { EONAFGroup(c) : c \in { AFPair(226, 40), AFPair(225, 30),
                                 AFPair(41, 42), AFPair(40, 205) } }

InitAFMethod == Setup({AFDecoder}, AFMethodRecords(AFDecoder))

DecodeAFMethod ==
  steps < MaxStepsAFMethod /\ \E g \in AFMethodGroups : DoDecode(g)

ResetAFMethod == steps < MaxStepsAFMethod /\ DoReset

NextAFMethod == DecodeAFMethod \/ ResetAFMethod

SpecAFMethod == InitAFMethod /\ [][NextAFMethod]_vars

\* C36: a decode call leaves the encoding method of every AF table of the
\* group and of the EON AF table as it was unless it was UNKNOWN: a method
\* A or B is changed by a reset only.
C36_MethodKept ==
  LastDecode =>
    /\ \A i \in 0..19 :
         last.pre.af.table[i].enc_method # 0 =>
           rds.af.table[i].enc_method = last.pre.af.table[i].enc_method
    /\ last.pre.eon.on.af.enc_method # 0 =>
         rds.eon.on.af.enc_method = last.pre.eon.on.af.enc_method

\* a start block declaring one frequency went to table 0, a method B table
\* of five frequencies: the frequency was added and the method kept
C36_Witness ==
  /\ LastStartBlock
  /\ LastFirstByte = 225
  /\ last.pre.af.table[0].enc_method = 2
  /\ last.pre.af.table[0].table.tuned_freq.freq = 915
  /\ rds.af.pvt.current_table_idx = 0
  /\ rds.af.table[0].enc_method = 2
  /\ rds.af.table[0].table.count = last.pre.af.table[0].table.count + 1
  /\ rds.af.table[0].pvt.expected_cnt = 0


\* C38: a decode call invokes decode_cb at most once and nothing else, and
\* only for a group whose block B is within its threshold and whose type is
\* the gt of an active entry; the id passed is that of the lowest-indexed
\* active entry bound to the type, and only that entry's packet counter
\* changes, by one.
C38_OneCallback ==
  LastDecode =>
    /\ Len(calls) <= 1
    /\ calls # <<>> =>
         /\ calls[1].fn = "decode_cb"
         /\ LastAccepted
         /\ BoundToLastGt # {}
         /\ \E i \in BoundToLastGt :
              /\ \A j \in BoundToLastGt : i <= j
              /\ calls[1].app_id = last.pre.oda[i].id
              /\ DeliveredTo(i)
              /\ \A j \in (0..9) \ {i} :
                   rds.oda[j].pkt_count = last.pre.oda[j].pkt_count
    /\ \A i \in 0..9 :
         rds.oda[i].pkt_count # last.pre.oda[i].pkt_count =>
           /\ LastAccepted
           /\ i \in BoundToLastGt
           /\ \A j \in BoundToLastGt : i <= j

\* applications 1001 (entry 0) and 19415 (entry 9) are both bound to 11A
\* and an 11A group arrives: one call, with 1001
C38_Witness ==
  /\ LastAccepted
  /\ LastGt = [code |-> 11, version |-> "A"]
  /\ BoundToLastGt = {0, 9}
  /\ last.pre.oda[9].id = 19415
  /\ Len(calls) = 1
  /\ calls[1].app_id = 1001
  /\ rds.oda[0].pkt_count = last.pre.oda[0].pkt_count + 1
  /\ rds.oda[9].pkt_count = last.pre.oda[9].pkt_count

\* the record is as rds_decoder_reset leaves its ODA registry
RegistryEmpty(r) ==
  /\ r.oda_cnt = 0
  /\ \A i \in 0..9 : r.oda[i] = ZeroRds.oda[i]

\* C39: after rds_decoder_reset the ODA registry is empty, and while it is
\* empty no decode call invokes decode_cb or changes a packet counter,
\* whatever the group; the registry stays empty until a 3A with a clean
\* block D and an AID other than 0 is accepted.  Neither reset nor decode
\* changes the callbacks, the user data or advanced_ps_decoding.
C39_ResetEmptiesRegistry ==
  /\ [](/\ LastReset => RegistryEmpty(rds)
        /\ (LastDecode /\ RegistryEmpty(last.pre)) =>
             /\ calls = <<>>
             /\ \/ RegistryEmpty(rds)
                \/ /\ Last3A
                   /\ last.blocks.d.errors = 0
                   /\ last.blocks.d.val # 0
                   /\ rds.oda_cnt = 1
                   /\ rds.oda[0].id = last.blocks.d.val
                   /\ rds.oda[0].pkt_count = 0)
  /\ [][last'.op \in {"decode", "reset"} => dec' = dec]_vars

\* a callback is bound, the decoder was reset, and the 11A group that
\* follows reaches no application
C39_Witness ==
  /\ LastAccepted
  /\ LastGt = [code |-> 11, version |-> "A"]
  /\ steps = 2
  /\ RegistryEmpty(last.pre)
  /\ last.pre.af.pvt.current_table_idx = -1
  /\ dec.oda.decode_cb # 0
  /\ calls = <<>>
  /\ RegistryEmpty(rds)

=============================================================================
